---- MODULE Spec2Model ----
(***************************************************************************)
(* A model of the Harlowe interpreter and path simulator of tweego-editor: *)
(* the expression evaluator (formats/harlowe/evaluator.go, literals.go),   *)
(* the conditional chain processor (formats/harlowe/conditionals.go) and   *)
(* the path simulator (simulator package).                                 *)
(*                                                                         *)
(* Go values are records tagged by "kind".  A Go map is a reference: a     *)
(* Datamap value holds an address into a heap (a sequence of map contents),*)
(* so that in-place writes and shared references behave as in the program. *)
(* float64 and int are one kind, "number", over the integers.              *)
(*                                                                         *)
(* The program dispatches on the TEXT of an expression (HasPrefix,         *)
(* Contains).  An expression is modelled as a syntax tree and every text   *)
(* test of the source as a predicate computed from the tree (Lead,          *)
(* ContainsOp and the like), so the dispatch order of the source is kept.  *)
(***************************************************************************)
EXTENDS Integers, Sequences, FiniteSets, TLC

VARIABLES
    eval,   \* the HarloweEvaluator: state, heap, visitedPassages, history, currentPassage
    ps,     \* the PathSimulator: story, visitedPassages, history
    call,   \* the operation in progress and its arguments (NoCall when idle)
    ret     \* what that operation returned (NoRet when idle)

vars == <<eval, ps, call, ret>>

NoCall == [op |-> "none"]
NoRet == [op |-> "none"]

(***************************************************************************)
(* Bounds of the model.                                                    *)
(***************************************************************************)
MaxChain == 3      \* nodes in a conditional chain
MaxPath == 3       \* titles in a simulated path
MaxDepth == 6      \* the maxDepth given to GetSuggestedPaths
MaxElems == 3      \* elements of a set literal
MaxArrayLen == 2   \* elements of an array a property path indexes
MaxOperands == 3   \* operands of an "and" or "or" condition
MaxRunPath == 2    \* titles in the path of a run that shares its simulator

(***************************************************************************)
(* Values (interface{} in the source).                                     *)
(***************************************************************************)
Num(n) == [kind |-> "number", n |-> n]
Str(s) == [kind |-> "string", s |-> s]
Bool(b) == [kind |-> "boolean", b |-> b]
Arr(items) == [kind |-> "array", items |-> items]
Dm(ref) == [kind |-> "datamap", ref |-> ref]
Ds(keys) == [kind |-> "dataset", keys |-> keys]
StrList(items) == [kind |-> "strings", items |-> items]
NilValue == [kind |-> "nil"]

EmptyMap == [k \in {} |-> NilValue]

\* m[k] = v on a Go map
MapPut(m, k, v) == [x \in (DOMAIN m) \cup {k} |-> IF x = k THEN v ELSE m[x]]

\* (value, error, heap after the call); err = "" is a nil error
R(val, err, heap) == [val |-> val, err |-> err, heap |-> heap]

\* the value of a local variable: the one element of a singleton set
Only(S) == CHOOSE v \in S : TRUE

(***************************************************************************)
(* Number texts.  strconv.ParseFloat and strconv.Atoi succeed on the       *)
(* numerals below and fail on every other string of the model.             *)
(***************************************************************************)
Numerals == <<"1", "2", "3", "4", "5", "6", "7", "8", "9", "10">>

NumeralValue(s) == CHOOSE i \in 1..Len(Numerals) : Numerals[i] = s

IsNumeral(s) == s = "0" \/ \E i \in 1..Len(Numerals) : Numerals[i] = s

ParseFloat(s) ==
    IF s = "0" THEN [num |-> 0, ok |-> TRUE]
    ELSE IF IsNumeral(s) THEN [num |-> NumeralValue(s), ok |-> TRUE]
    ELSE [num |-> 0, ok |-> FALSE]

Atoi(s) == ParseFloat(s)

\* evaluator.go toNumber: int, float64, or a string ParseFloat accepts
toNumber(value) ==
    CASE value.kind = "number" -> [num |-> value.n, ok |-> TRUE]
      [] value.kind = "string" -> ParseFloat(value.s)
      [] OTHER -> [num |-> 0, ok |-> FALSE]

\* GetTypeName
GetTypeName(value) ==
    CASE value.kind = "nil" -> "empty"
      [] value.kind = "boolean" -> "boolean"
      [] value.kind = "number" -> "number"
      [] value.kind = "string" -> "string"
      [] value.kind = "array" -> "array"
      [] value.kind = "datamap" -> "datamap"
      [] value.kind = "dataset" -> "dataset"
      [] OTHER -> "unknown"

(***************************************************************************)
(* The evaluator object.                                                   *)
(***************************************************************************)
NewHarloweEvaluator(state, heap) ==
    [state |-> state, heap |-> heap,
     visitedPassages |-> [t \in {} |-> 0], history |-> << >>, currentPassage |-> ""]

visited(e, passageName) ==
    IF passageName \in DOMAIN e.visitedPassages THEN e.visitedPassages[passageName] ELSE 0

visits(e) == visited(e, e.currentPassage)

(***************************************************************************)
(* Expressions.  The syntax trees the model evaluates:                     *)
(*   [t |-> "var", name]          $name                                    *)
(*   [t |-> "prop", name, segs]   $name's s1's s2                          *)
(*   [t |-> "num", n]  [t |-> "str", s]  [t |-> "bool", b]                 *)
(*   [t |-> "arr", elems]  [t |-> "dm", elems]  [t |-> "ds", elems]        *)
(*   [t |-> "visited", name]      (visited: "name")                        *)
(*   [t |-> "visits"]  [t |-> "history"]  [t |-> "it"]                     *)
(*   [t |-> "bin", op, l, r]      l op r                                   *)
(*   [t |-> "not", c]             not c   (conditions only)                *)
(*   [t |-> "raw", s]             text that is none of the above           *)
(***************************************************************************)
XVar(name) == [t |-> "var", name |-> name]
XProp(name, segs) == [t |-> "prop", name |-> name, segs |-> segs]
XNum(n) == [t |-> "num", n |-> n]
XStr(s) == [t |-> "str", s |-> s]
XBool(b) == [t |-> "bool", b |-> b]
XArr(elems) == [t |-> "arr", elems |-> elems]
XDm(elems) == [t |-> "dm", elems |-> elems]
XDs(elems) == [t |-> "ds", elems |-> elems]
XVisited(name) == [t |-> "visited", name |-> name]
XIt == [t |-> "it"]
XVisits == [t |-> "visits"]
XBin(op, l, r) == [t |-> "bin", op |-> op, l |-> l, r |-> r]
XNot(c) == [t |-> "not", c |-> c]

\* the leftmost and the rightmost leaf of the text
RECURSIVE Lead(_)
Lead(x) == IF x.t = "bin" THEN Lead(x.l) ELSE x

RECURSIVE Trail(_)
Trail(x) == IF x.t = "bin" THEN Trail(x.r) ELSE x

\* strings.Contains(text, "'s")
RECURSIVE ContainsPoss(_)
ContainsPoss(x) ==
    CASE x.t = "prop" -> TRUE
      [] x.t = "bin" -> ContainsPoss(x.l) \/ ContainsPoss(x.r)
      [] x.t = "not" -> ContainsPoss(x.c)
      [] x.t \in {"arr", "dm", "ds"} -> \E i \in 1..Len(x.elems) : ContainsPoss(x.elems[i])
      [] OTHER -> FALSE

\* strings.Contains(text, op) for an operator's connective
RECURSIVE ContainsOp(_, _)
ContainsOp(x, op) ==
    CASE x.t = "bin" -> \/ x.op = op
                        \/ (op = ">" /\ x.op = ">=") \/ (op = "<" /\ x.op = "<=")
                        \/ ContainsOp(x.l, op) \/ ContainsOp(x.r, op)
      [] x.t = "not" -> ContainsOp(x.c, op)
      [] x.t \in {"arr", "dm", "ds"} -> \E i \in 1..Len(x.elems) : ContainsOp(x.elems[i], op)
      [] OTHER -> FALSE

\* the whole-word token "it" occurs in the text
RECURSIVE ContainsIt(_)
ContainsIt(x) ==
    CASE x.t = "it" -> TRUE
      [] x.t = "bin" -> ContainsIt(x.l) \/ ContainsIt(x.r)
      [] x.t = "not" -> ContainsIt(x.c)
      [] x.t \in {"arr", "dm", "ds"} -> \E i \in 1..Len(x.elems) : ContainsIt(x.elems[i])
      [] OTHER -> FALSE

\* the source text of an expression, where the program keeps raw text as a value
RECURSIVE TextOf(_)
TextOf(x) ==
    CASE x.t = "var" -> "$" \o x.name
      [] x.t = "prop" -> "$" \o x.name \o "'s.."
      [] x.t = "num" -> ToString(x.n)
      [] x.t = "str" -> "\"" \o x.s \o "\""
      [] x.t = "bool" -> IF x.b THEN "true" ELSE "false"
      [] x.t = "it" -> "it"
      [] x.t = "visits" -> "visits"
      [] x.t = "history" -> "(history:)"
      [] x.t = "visited" -> "(visited: \"" \o x.name \o "\")"
      [] x.t = "arr" -> "(a:..)"
      [] x.t = "dm" -> "(dm:..)"
      [] x.t = "ds" -> "(ds:..)"
      [] x.t = "bin" -> TextOf(x.l) \o " " \o x.op \o " " \o TextOf(x.r)
      [] x.t = "not" -> "not " \o TextOf(x.c)
      [] x.t = "raw" -> x.s
      [] OTHER -> "?"

(***************************************************************************)
(* Property access (evaluator.go 113-246, 359-428).                        *)
(***************************************************************************)
Ordinals == <<"1st", "2nd", "3rd", "4th", "5th", "6th", "7th", "8th", "9th", "10th">>

\* isOrdinal: the eleven words of the list, nothing else
isOrdinal(s) == s = "last" \/ \E i \in 1..Len(Ordinals) : Ordinals[i] = s

\* toArray
toArray(value) ==
    IF value.kind = "array" THEN [arr |-> value.items, err |-> ""]
    ELSE [arr |-> << >>, err |-> "value is not an array"]

\* getArrayLength
getArrayLength(array) ==
    LET a == toArray(array) IN
    IF a.err # "" THEN [val |-> Num(0), err |-> "operand is not an array"]
    ELSE [val |-> Num(Len(a.arr)), err |-> ""]

\* the 0-based index getArrayElement computes for a position word
PositionIndex(position, len) ==
    IF position = "last" THEN [index |-> len - 1, err |-> ""]
    ELSE IF \E i \in 1..Len(Ordinals) : Ordinals[i] = position
         THEN [index |-> (CHOOSE i \in 1..Len(Ordinals) : Ordinals[i] = position) - 1, err |-> ""]
    ELSE LET a == Atoi(position) IN
         IF a.ok THEN [index |-> a.num - 1, err |-> ""]
         ELSE [index |-> 0, err |-> "invalid position"]

\* getArrayElement
getArrayElement(array, position) ==
    LET a == toArray(array) IN
    IF a.err # "" THEN [val |-> NilValue, err |-> "operand is not an array"]
    ELSE IF Len(a.arr) = 0 THEN [val |-> NilValue, err |-> "array is empty"]
    ELSE LET p == PositionIndex(position, Len(a.arr)) IN
         IF p.err # "" THEN [val |-> NilValue, err |-> p.err]
         ELSE IF p.index < 0 \/ p.index >= Len(a.arr)
              THEN [val |-> NilValue, err |-> "index out of bounds"]
         ELSE [val |-> a.arr[p.index + 1], err |-> ""]

\* parsePropertyPath: the text without its "$", split at every "'s".  A text
\* that is not a pure path keeps the rest of the text in its last part, which
\* is then no key of any map and no ordinal.
parsePropertyPath(x) ==
    IF x.t = "prop" THEN <<x.name>> \o x.segs
    ELSE IF Lead(x).t = "prop"
         THEN <<Lead(x).name>> \o SubSeq(Lead(x).segs, 1, Len(Lead(x).segs) - 1) \o <<TextOf(x)>>
    ELSE <<TextOf(x), TextOf(x)>>

\* the loop of EvaluatePropertyAccess over the properties, from the i-th on
RECURSIVE PropertyLoop(_, _, _, _)
PropertyLoop(heap, currentValue, properties, i) ==
    IF i > Len(properties) THEN [val |-> currentValue, err |-> ""]
    ELSE LET propertyName == properties[i] IN
         IF propertyName = "length" THEN getArrayLength(currentValue)
         ELSE IF isOrdinal(propertyName) THEN getArrayElement(currentValue, propertyName)
         ELSE IF currentValue.kind # "datamap"
              THEN [val |-> NilValue, err |-> "cannot access property on non-datamap value"]
         ELSE IF propertyName \notin DOMAIN heap[currentValue.ref]
              THEN [val |-> NilValue, err |-> "property does not exist in path"]
         ELSE PropertyLoop(heap, heap[currentValue.ref][propertyName], properties, i + 1)

\* a plausible slip: an absent base variable reads as 0, as a bare variable does
EvaluatePropertyAccess_absentzero(e, x) ==
    Only({ IF Len(parts) < 2 THEN R(NilValue, "invalid property access", e.heap)
           ELSE IF parts[1] \notin DOMAIN e.state THEN R(Num(0), "", e.heap)
           ELSE Only({ R(r.val, r.err, e.heap)
                       : r \in { PropertyLoop(e.heap, e.state[parts[1]], Tail(parts), 1) } })
           : parts \in { parsePropertyPath(x) } })

\* a plausible slip: reading a key that the base datamap does not hold
\* creates it, as indexing does in languages that auto-vivify
EvaluatePropertyAccess_vivify(e, x) ==
    Only({ IF Len(parts) < 2 THEN R(NilValue, "invalid property access", e.heap)
           ELSE IF parts[1] \notin DOMAIN e.state
                THEN R(NilValue, "variable does not exist", e.heap)
           ELSE IF /\ e.state[parts[1]].kind = "datamap"
                   /\ parts[2] # "length"
                   /\ ~isOrdinal(parts[2])
                   /\ parts[2] \notin DOMAIN e.heap[e.state[parts[1]].ref]
                THEN R(NilValue, "property does not exist in path",
                       [e.heap EXCEPT ![e.state[parts[1]].ref] = MapPut(@, parts[2], NilValue)])
           ELSE Only({ R(r.val, r.err, e.heap)
                       : r \in { PropertyLoop(e.heap, e.state[parts[1]], Tail(parts), 1) } })
           : parts \in { parsePropertyPath(x) } })

\* EvaluatePropertyAccess
EvaluatePropertyAccess(e, x) ==
    Only({ IF Len(parts) < 2 THEN R(NilValue, "invalid property access", e.heap)
           ELSE IF parts[1] \notin DOMAIN e.state
                THEN R(NilValue, "variable does not exist", e.heap)
           ELSE Only({ R(r.val, r.err, e.heap)
                       : r \in { PropertyLoop(e.heap, e.state[parts[1]], Tail(parts), 1) } })
           : parts \in { parsePropertyPath(x) } })

(***************************************************************************)
(* Equality, contains, merge, concatenation (evaluator.go 324-452, 700-733)*)
(***************************************************************************)
\* fmt.Sprintf("%v", value)
RECURSIVE Sprintv(_, _)
RECURSIVE SprintItems(_, _, _)
SprintItems(heap, items, i) ==
    IF i > Len(items) THEN ""
    ELSE (IF i > 1 THEN " " ELSE "") \o Sprintv(heap, items[i]) \o SprintItems(heap, items, i + 1)

Sprintv(heap, value) ==
    CASE value.kind = "number" -> ToString(value.n)
      [] value.kind = "string" -> value.s
      [] value.kind = "boolean" -> (IF value.b THEN "true" ELSE "false")
      [] value.kind = "array" -> "[" \o SprintItems(heap, value.items, 1) \o "]"
      [] value.kind = "strings" -> "[..]"
      [] value.kind = "datamap" -> "map[" \o ToString(heap[value.ref]) \o "]"
      [] value.kind = "dataset" -> "map[" \o ToString(value.keys) \o "]"
      [] OTHER -> "<nil>"

\* areEqual
areEqual(heap, left, right) ==
    LET l == toNumber(left)
        r == toNumber(right)
    IN  IF l.ok /\ r.ok THEN l.num = r.num
        ELSE IF left.kind = "boolean" /\ right.kind = "boolean" THEN left.b = right.b
        ELSE IF left.kind = "string" /\ right.kind = "string" THEN left.s = right.s
        ELSE Sprintv(heap, left) = Sprintv(heap, right)

\* a plausible slip: an operand that is no array yields nil and no error
contains_nilresult(heap, array, value) ==
    LET a == toArray(array) IN
    IF a.err # "" THEN [val |-> NilValue, err |-> ""]
    ELSE [val |-> Bool(\E i \in 1..Len(a.arr) : areEqual(heap, a.arr[i], value)), err |-> ""]

\* contains
contains(heap, array, value) ==
    LET a == toArray(array) IN
    IF a.err # "" THEN [val |-> Bool(FALSE), err |-> "operand is not an array"]
    ELSE [val |-> Bool(\E i \in 1..Len(a.arr) : areEqual(heap, a.arr[i], value)), err |-> ""]

\* concatenateArrays
concatenateArrays(left, right) ==
    LET l == toArray(left)
        r == toArray(right)
    IN  IF l.err # "" THEN [val |-> NilValue, err |-> "left operand is not an array"]
        ELSE IF r.err # "" THEN [val |-> NilValue, err |-> "right operand is not an array"]
        ELSE [val |-> Arr(l.arr \o r.arr), err |-> ""]

\* a plausible slip: left's value wins on a shared key
MergeDatamaps_leftbias(heap, left, right) ==
    IF left.kind # "datamap" THEN R(NilValue, "left operand is not a datamap", heap)
    ELSE IF right.kind # "datamap" THEN R(NilValue, "right operand is not a datamap", heap)
    ELSE LET leftMap == heap[left.ref]
             rightMap == heap[right.ref]
             result == [k \in (DOMAIN leftMap) \cup (DOMAIN rightMap) |->
                            IF k \in DOMAIN leftMap THEN leftMap[k] ELSE rightMap[k]]
         IN  R(Dm(Len(heap) + 1), "", Append(heap, result))

\* MergeDatamaps: a new map holding left's entries, then right's over them
MergeDatamaps(heap, left, right) ==
    IF left.kind # "datamap" THEN R(NilValue, "left operand is not a datamap", heap)
    ELSE IF right.kind # "datamap" THEN R(NilValue, "right operand is not a datamap", heap)
    ELSE LET leftMap == heap[left.ref]
             rightMap == heap[right.ref]
             afterLeft == [k \in DOMAIN leftMap |-> leftMap[k]]
             result == [k \in (DOMAIN afterLeft) \cup (DOMAIN rightMap) |->
                            IF k \in DOMAIN rightMap THEN rightMap[k] ELSE afterLeft[k]]
         IN  R(Dm(Len(heap) + 1), "", Append(heap, result))

(***************************************************************************)
(* Expression evaluation (evaluator.go 522-802) and literals (literals.go).*)
(* Every operator returns R(value, error, heap): a literal allocates maps. *)
(***************************************************************************)
WithHeap(e, heap) == [e EXCEPT !.heap = heap]

\* strings.Trim(text, `"`) of a text that starts and ends with a quote
RECURSIVE TrimLeft(_)
TrimLeft(x) == IF x.t = "bin" THEN TrimLeft(x.l) \o " " \o x.op \o " " \o TextOf(x.r)
               ELSE x.s \o "\""

RECURSIVE TrimRight(_)
TrimRight(x) == IF x.t = "bin" THEN TextOf(x.l) \o " " \o x.op \o " " \o TrimRight(x.r)
                ELSE "\"" \o x.s

TrimQuotes(x) == IF x.t = "bin" THEN TrimLeft(x.l) \o " " \o x.op \o " " \o TrimRight(x.r)
                 ELSE x.s

\* the text starts and ends with a double quote
IsQuoted(x) == Lead(x).t = "str" /\ Trail(x).t = "str"

\* the number of "-" characters of the text
RECURSIVE CountMinus(_)
CountMinus(x) ==
    CASE x.t = "bin" -> (IF x.op = "-" THEN 1 ELSE 0) + CountMinus(x.l) + CountMinus(x.r)
      [] x.t = "num" -> (IF x.n < 0 THEN 1 ELSE 0)
      [] OTHER -> 0

\* the number of "+" characters of the text
RECURSIVE CountPlus(_)
CountPlus(x) ==
    CASE x.t = "bin" -> (IF x.op = "+" THEN 1 ELSE 0) + CountPlus(x.l) + CountPlus(x.r)
      [] OTHER -> 0

\* Literals hold expressions and expressions hold literals.
RECURSIVE EvaluateExpression(_, _)
RECURSIVE ParseValue(_, _)
RECURSIVE ParseElements(_, _, _, _)
RECURSIVE ParsePairs(_, _, _, _)

\* the element loop of ParseArrayLiteral and ParseDatasetLiteral: each element
\* through ParseValue, kept as its raw text when that fails
ParseElements(e, elems, i, acc) ==
    IF i > Len(elems) THEN R(acc, "", e.heap)
    ELSE Only({ ParseElements(WithHeap(e, r.heap), elems, i + 1,
                              Append(acc, IF r.err # "" THEN Str(TextOf(elems[i])) ELSE r.val))
                : r \in { ParseValue(elems[i], e) } })

\* the pair loop of ParseDatamapLiteral: key text with its quotes stripped,
\* value through ParseValue; a later duplicate key overwrites
ParsePairs(e, elems, i, acc) ==
    IF i > Len(elems) THEN R(acc, "", e.heap)
    ELSE IF i + 1 > Len(elems) THEN R(EmptyMap, "datamap has odd number of elements", e.heap)
    ELSE Only({ ParsePairs(WithHeap(e, r.heap), elems, i + 2,
                           MapPut(acc,
                                  IF elems[i].t = "str" THEN elems[i].s ELSE TextOf(elems[i]),
                                  IF r.err # "" THEN Str(TextOf(elems[i + 1])) ELSE r.val))
                : r \in { ParseValue(elems[i + 1], e) } })

\* the text between the first ":" and the last ")": the literal's own elements
\* when the text is one literal; otherwise the literal runs on into the rest of
\* the text, which is one element no parser accepts
MacroElements(x) ==
    IF x.t # "bin" THEN x.elems
    ELSE IF Trail(x).t \in {"arr", "dm", "ds", "visited", "history"}
         THEN <<[t |-> "raw", s |-> TextOf(x)]>>
    ELSE Lead(x).elems

ParseArrayLiteral(x, e) ==
    Only({ R(Arr(r.val), "", r.heap) : r \in { ParseElements(e, MacroElements(x), 1, << >>) } })

ParseDatamapLiteral(x, e) ==
    Only({ IF r.err # "" THEN R(NilValue, r.err, r.heap)
           ELSE R(Dm(Len(r.heap) + 1), "", Append(r.heap, r.val))
           : r \in { ParsePairs(e, MacroElements(x), 1, EmptyMap) } })

ParseDatasetLiteral(x, e) ==
    Only({ R(Ds({Sprintv(r.heap, r.val[i]) : i \in 1..Len(r.val)}), "", r.heap)
           : r \in { ParseElements(e, MacroElements(x), 1, << >>) } })

\* evaluateContains
evaluateContains(e, x) ==
    IF ~(x.t = "bin" /\ x.op = "contains" /\ ~ContainsOp(x.l, "contains")
            /\ ~ContainsOp(x.r, "contains"))
    THEN R(NilValue, "invalid contains expression", e.heap)
    ELSE Only({ IF l.err # "" THEN R(NilValue, l.err, l.heap)
                ELSE Only({ IF r.err # "" THEN R(NilValue, r.err, r.heap)
                            ELSE Only({ R(c.val, c.err, r.heap)
                                        : c \in { contains(r.heap, l.val, r.val) } })
                            : r \in { EvaluateExpression(WithHeap(e, l.heap), x.r) } })
                : l \in { EvaluateExpression(e, x.l) } })

\* both operands of a binary operator, the right one after the left one
Operands(e, x) ==
    Only({ Only({ [l |-> l, r |-> r, ln |-> toNumber(l.val), rn |-> toNumber(r.val)]
                  : r \in { EvaluateExpression(WithHeap(e, l.heap), x.r) } })
           : l \in { EvaluateExpression(e, x.l) } })

\* evaluatePlus: both operands are evaluated, then the left value's type decides
evaluatePlus(e, x) ==
    IF ~(x.t = "bin" /\ x.op = "+" /\ CountPlus(x) = 1)
    THEN R(NilValue, "invalid plus expression", e.heap)
    ELSE Only({ IF o.l.err # "" \/ o.r.err # ""
                THEN R(NilValue, "error evaluating operands", o.r.heap)
                ELSE IF o.l.val.kind = "datamap" THEN MergeDatamaps(o.r.heap, o.l.val, o.r.val)
                ELSE IF o.l.val.kind = "array"
                     THEN Only({ R(c.val, c.err, o.r.heap)
                                 : c \in { concatenateArrays(o.l.val, o.r.val) } })
                ELSE IF o.ln.ok /\ o.rn.ok THEN R(Num(o.ln.num + o.rn.num), "", o.r.heap)
                ELSE IF o.l.val.kind = "string" /\ o.r.val.kind = "string"
                     THEN R(Str(o.l.val.s \o o.r.val.s), "", o.r.heap)
                ELSE R(NilValue, "cannot add", o.r.heap)
                : o \in { Operands(e, x) } })

\* evaluateMinus: the text is split at every "-", the sign of a negative
\* number included
evaluateMinus(e, x) ==
    IF ~(x.t = "bin" /\ x.op = "-" /\ CountMinus(x) = 1)
    THEN R(NilValue, "invalid minus expression", e.heap)
    ELSE Only({ IF o.l.err # "" \/ o.r.err # ""
                THEN R(NilValue, "error evaluating operands", o.r.heap)
                ELSE IF o.ln.ok /\ o.rn.ok THEN R(Num(o.ln.num - o.rn.num), "", o.r.heap)
                ELSE R(NilValue, "cannot subtract", o.r.heap)
                : o \in { Operands(e, x) } })

Compare(op, l, r) ==
    CASE op = ">=" -> l >= r
      [] op = "<=" -> l <= r
      [] op = ">" -> l > r
      [] op = "<" -> l < r
      [] OTHER -> l = r

\* HarloweEvaluator.evaluateComparison
evaluateComparison(e, x) ==
    IF x.t # "bin" \/ x.op \notin {">", "<", ">=", "<=", "is", "=="}
    THEN R(NilValue, "cannot evaluate comparison", e.heap)
    ELSE Only({ IF o.l.err # "" \/ o.r.err # ""
                THEN R(NilValue, "error evaluating comparison operands", o.r.heap)
                ELSE IF o.ln.ok /\ o.rn.ok
                     THEN R(Bool(Compare(x.op, o.ln.num, o.rn.num)), "", o.r.heap)
                ELSE IF x.op \in {"is", "=="}
                     THEN R(Bool(areEqual(o.r.heap, o.l.val, o.r.val)), "", o.r.heap)
                ELSE R(NilValue, "cannot evaluate comparison", o.r.heap)
                : o \in { Operands(e, x) } })

\* ParseValue (literals.go 15-64)
ParseValue(x, e) ==
    CASE Lead(x).t = "arr" -> ParseArrayLiteral(x, e)
      [] Lead(x).t = "dm" -> ParseDatamapLiteral(x, e)
      [] Lead(x).t = "ds" -> ParseDatasetLiteral(x, e)
      [] IsQuoted(x) -> R(Str(TrimQuotes(x)), "", e.heap)
      [] x.t = "num" -> R(Num(x.n), "", e.heap)
      [] x.t = "bool" -> R(Bool(x.b), "", e.heap)
      [] Lead(x).t \in {"var", "prop"} ->
            IF ContainsPoss(x) THEN EvaluatePropertyAccess(e, x)
            ELSE EvaluateExpression(e, x)
      [] OTHER -> EvaluateExpression(e, x)

\* EvaluateExpression (evaluator.go 522-618): the first text test that fires wins
EvaluateExpression(e, x) ==
    CASE x.t = "visits" -> R(Num(visits(e)), "", e.heap)
      [] Lead(x).t = "visited" -> R(Num(visited(e, Lead(x).name)), "", e.heap)
      [] x.t = "history" -> R(StrList(e.history), "", e.heap)
      [] Lead(x).t = "arr" -> ParseArrayLiteral(x, e)
      [] Lead(x).t = "dm" -> ParseDatamapLiteral(x, e)
      [] Lead(x).t = "ds" -> ParseDatasetLiteral(x, e)
      [] ContainsPoss(x) -> EvaluatePropertyAccess(e, x)
      [] Lead(x).t = "var" ->
            \* the name is all the text after "$"
            IF x.t = "var" /\ x.name \in DOMAIN e.state
            THEN R(e.state[x.name], "", e.heap)
            ELSE R(Num(0), "", e.heap)
      [] x.t = "num" -> R(Num(x.n), "", e.heap)
      [] IsQuoted(x) -> R(Str(TrimQuotes(x)), "", e.heap)
      [] x.t = "bool" -> R(Bool(x.b), "", e.heap)
      [] ContainsOp(x, "contains") -> evaluateContains(e, x)
      [] ContainsOp(x, "+") -> evaluatePlus(e, x)
      [] ContainsOp(x, "-") \/ CountMinus(x) > 0 -> evaluateMinus(e, x)
      [] \E op \in {">", "<", ">=", "<=", "is", "=="} : ContainsOp(x, op) ->
            evaluateComparison(e, x)
      [] OTHER -> R(NilValue, "cannot evaluate expression", e.heap)

\* the slices a range over a Go map can build: its keys in any order
Orderings(keys) ==
    { order \in [1..Cardinality(keys) -> keys] :
         \A i, j \in 1..Cardinality(keys) : order[i] = order[j] => i = j }

\* HarloweFormat.ParseDatasetLiteral (evaluator.go 1276-1289): the keys of the
\* set parsed by a fresh evaluator, appended in the order of the range
h_ParseDatasetLiteral(content) ==
    Orderings(ParseDatasetLiteral(content, NewHarloweEvaluator(EmptyMap, << >>)).val.keys)

(***************************************************************************)
(* The conditional chain processor (conditionals.go).                      *)
(***************************************************************************)
\* a plausible slip: a non-empty string is not true
toBool_nostring(heap, value) ==
    CASE value.kind = "boolean" -> value.b
      [] value.kind = "number" -> value.n # 0
      [] value.kind = "array" -> Len(value.items) > 0
      [] OTHER -> FALSE

\* ConditionalHandler.toBool.  The length of a map is read from the heap.
toBool(heap, value) ==
    CASE value.kind = "boolean" -> value.b
      [] value.kind = "number" -> value.n # 0
      [] value.kind = "string" -> value.s # ""
      [] value.kind = "array" -> Len(value.items) > 0
      [] value.kind = "datamap" -> DOMAIN heap[value.ref] # {}
      [] OTHER -> FALSE

\* (bool, error, heap)
B(val, err, heap) == [val |-> val, err |-> err, heap |-> heap]

\* the text after a leading "not "
RECURSIVE StripNot(_)
StripNot(c) == IF c.t = "bin" THEN XBin(c.op, StripNot(c.l), c.r) ELSE c.c

\* ConditionalHandler.evaluateComparison: the text split at the operator
ch_evaluateComparison(e, c, operator) ==
    IF ~(c.t = "bin" /\ c.op = operator)
    THEN B(FALSE, "invalid comparison syntax", e.heap)
    ELSE Only({ IF l.err # "" THEN B(FALSE, l.err, l.heap)
                ELSE Only({ IF r.err # "" THEN B(FALSE, r.err, r.heap)
                            ELSE Only({ IF ~ln.ok \/ ~rn.ok
                                        THEN B(FALSE, "cannot compare non-numeric values", r.heap)
                                        ELSE B(Compare(operator, ln.num, rn.num), "", r.heap)
                                        : ln \in { toNumber(l.val) }, rn \in { toNumber(r.val) } })
                            : r \in { EvaluateExpression(WithHeap(e, l.heap), c.r) } })
                : l \in { EvaluateExpression(e, c.l) } })

\* the comparison operator EvaluateCondition finds in the text, in its order
\* of search; "" when there is none
ComparisonOperator(c) ==
    CASE ContainsOp(c, ">=") -> ">="
      [] ContainsOp(c, "<=") -> "<="
      [] ContainsOp(c, ">") -> ">"
      [] ContainsOp(c, "<") -> "<"
      [] OTHER -> ""

\* strings.Split(text, " op "): the parts of the text between the operator's
\* occurrences; an operand of another operator joins the text next to it
RECURSIVE SplitOn(_, _)
SplitOn(x, op) ==
    IF x.t # "bin" THEN << x >>
    ELSE Only({ IF x.op = op THEN l \o r
                ELSE SubSeq(l, 1, Len(l) - 1) \o << XBin(x.op, l[Len(l)], r[1]) >> \o Tail(r)
                : l \in { SplitOn(x.l, op) }, r \in { SplitOn(x.r, op) } })

\* result.(bool) on a value that is no bool
Panic == "panic: interface conversion"

RECURSIVE ch_EvaluateCondition(_, _)

\* a plausible slip: every part is evaluated before the results are combined
RECURSIVE AndLoop_eager(_, _, _)
AndLoop_eager(e, parts, i) ==
    IF i > Len(parts) THEN B(TRUE, "", e.heap)
    ELSE Only({ Only({ IF r.err # "" THEN B(FALSE, r.err, rest.heap)
                       ELSE IF rest.err # "" THEN B(FALSE, rest.err, rest.heap)
                       ELSE B(r.val /\ rest.val, "", rest.heap)
                       : rest \in { AndLoop_eager(WithHeap(e, r.heap), parts, i + 1) } })
                : r \in { ch_EvaluateCondition(e, parts[i]) } })

\* the loop of evaluateAnd over the parts, from the i-th on
RECURSIVE AndLoop(_, _, _)
AndLoop(e, parts, i) ==
    IF i > Len(parts) THEN B(TRUE, "", e.heap)
    ELSE Only({ IF r.err # "" THEN B(FALSE, r.err, r.heap)
                ELSE IF ~r.val THEN B(FALSE, "", r.heap)
                ELSE AndLoop(WithHeap(e, r.heap), parts, i + 1)
                : r \in { ch_EvaluateCondition(e, parts[i]) } })

\* ConditionalHandler.evaluateAnd
evaluateAnd(e, c) ==
    Only({ IF Len(parts) < 2 THEN B(FALSE, "invalid 'and' syntax", e.heap)
           ELSE AndLoop(e, parts, 1)
           : parts \in { SplitOn(c, "and") } })

\* the loop of evaluateOr over the parts, from the i-th on
RECURSIVE OrLoop(_, _, _)
OrLoop(e, parts, i) ==
    IF i > Len(parts) THEN B(FALSE, "", e.heap)
    ELSE Only({ IF r.err # "" THEN B(FALSE, r.err, r.heap)
                ELSE IF r.val THEN B(TRUE, "", r.heap)
                ELSE OrLoop(WithHeap(e, r.heap), parts, i + 1)
                : r \in { ch_EvaluateCondition(e, parts[i]) } })

\* ConditionalHandler.evaluateOr
evaluateOr(e, c) ==
    Only({ IF Len(parts) < 2 THEN B(FALSE, "invalid 'or' syntax", e.heap)
           ELSE OrLoop(e, parts, 1)
           : parts \in { SplitOn(c, "or") } })

\* the "does not contain" branch of EvaluateCondition: the text is split at
\* the operator, written again with "contains" and given to evaluateContains
ch_doesNotContain(e, c) ==
    IF ~(c.t = "bin" /\ c.op = "does not contain"
            /\ ~ContainsOp(c.l, "does not contain") /\ ~ContainsOp(c.r, "does not contain"))
    THEN B(FALSE, "invalid 'does not contain' syntax", e.heap)
    ELSE Only({ IF r.err # "" THEN B(FALSE, r.err, r.heap)
                ELSE IF r.val.kind # "boolean" THEN B(FALSE, Panic, r.heap)
                ELSE B(~r.val.b, "", r.heap)
                : r \in { evaluateContains(e, XBin("contains", c.l, c.r)) } })

\* the "contains" branch of EvaluateCondition
ch_contains(e, c) ==
    Only({ IF r.err # "" THEN B(FALSE, r.err, r.heap)
           ELSE IF r.val.kind # "boolean" THEN B(FALSE, Panic, r.heap)
           ELSE B(r.val.b, "", r.heap)
           : r \in { evaluateContains(e, c) } })

\* ConditionalHandler.EvaluateCondition (conditionals.go 255-374), for the
\* condition texts of the model: a "not " prefix, "and", "or", "does not
\* contain", "contains", a comparison, a bare expression
ch_EvaluateCondition(e, c) ==
    CASE Lead(c).t = "not" ->
            Only({ IF r.err # "" THEN B(FALSE, r.err, r.heap) ELSE B(~r.val, "", r.heap)
                   : r \in { ch_EvaluateCondition(e, StripNot(c)) } })
      [] ContainsOp(c, "and") -> evaluateAnd(e, c)
      [] ContainsOp(c, "or") -> evaluateOr(e, c)
      [] ContainsOp(c, "does not contain") -> ch_doesNotContain(e, c)
      [] ContainsOp(c, "contains") -> ch_contains(e, c)
      [] ComparisonOperator(c) # "" -> ch_evaluateComparison(e, c, ComparisonOperator(c))
      [] OTHER ->
            Only({ IF r.err # "" THEN B(FALSE, r.err, r.heap)
                   ELSE B(toBool(r.heap, r.val), "", r.heap)
                   : r \in { EvaluateExpression(e, c) } })

\* HarloweEvaluator.EvaluateCondition (evaluator.go 70-94): the value of the
\* expression, then a switch on its type whose default is result != nil
EvaluateCondition(e, c) ==
    Only({ IF r.err # "" THEN B(FALSE, r.err, r.heap)
           ELSE B(CASE r.val.kind = "boolean" -> r.val.b
                    [] r.val.kind = "number" -> r.val.n # 0
                    [] r.val.kind = "string" -> r.val.s # ""
                    [] r.val.kind = "array" -> Len(r.val.items) > 0
                    [] r.val.kind = "datamap" -> DOMAIN r.heap[r.val.ref] # {}
                    [] OTHER -> r.val # NilValue,
                  "", r.heap)
           : r \in { EvaluateExpression(e, c) } })

(***************************************************************************)
(* A chain text is a sequence of nodes "(kind: cond)[hook]" written one    *)
(* after the other: [kind, cond, hasHook, hook].  A node with hasHook      *)
(* FALSE is the macro without its bracketed hook.  The hook texts of the   *)
(* model hold no "]".                                                      *)
(***************************************************************************)
\* the text holds a ")" before the one closing the macro: [^)]+ stops there
RECURSIVE HasParen(_)
HasParen(c) ==
    CASE c.t = "bin" -> HasParen(c.l) \/ HasParen(c.r)
      [] c.t = "not" -> HasParen(c.c)
      [] c.t \in {"arr", "dm", "ds", "visited", "history"} -> TRUE
      [] OTHER -> FALSE

\* the regular expression ^\(kind:\s*([^)]+)\)\[([^\]]*)\] matches the head node
NodeMatches(node) == node.hasHook /\ ~HasParen(node.cond)

\* strings.HasPrefix(expression, "(kind:")
HasPrefixNode(expression, kind) == Len(expression) > 0 /\ expression[1].kind = kind

ConditionalResult(met, hook, type) ==
    [ConditionMet |-> met, ActiveHook |-> hook, HookType |-> type]

NilResult == [ConditionMet |-> FALSE, ActiveHook |-> "", HookType |-> "nil"]

\* (*ConditionalResult, error, heap)
CR(res, err, heap) == [res |-> res, err |-> err, heap |-> heap]

\* processElse: ^\(else:\)\[([^\]]*)\]
processElse(e, expression, previousHookShown) ==
    IF ~expression[1].hasHook THEN CR(NilResult, "invalid else statement syntax", e.heap)
    ELSE IF ~previousHookShown
         THEN CR(ConditionalResult(TRUE, expression[1].hook, "else"), "", e.heap)
    ELSE CR(ConditionalResult(FALSE, "", "else"), "", e.heap)

\* a plausible slip: a false else-if ends the chain instead of going on
processElseIfChain_stop(e, expression, previousHookShown) ==
    IF ~NodeMatches(expression[1])
    THEN CR(NilResult, "invalid else-if statement syntax", e.heap)
    ELSE IF previousHookShown THEN CR(ConditionalResult(FALSE, "", "else-if"), "", e.heap)
    ELSE Only({ IF c.err # "" THEN CR(NilResult, "error evaluating else-if condition", c.heap)
                ELSE IF c.val
                     THEN CR(ConditionalResult(TRUE, expression[1].hook, "else-if"), "", c.heap)
                ELSE CR(ConditionalResult(FALSE, "", "else-if"), "", c.heap)
                : c \in { ch_EvaluateCondition(e, expression[1].cond) } })

\* a plausible slip: the else-if links of an unless-chain inherit the inversion
RECURSIVE processElseIfChain_inverted(_, _, _)
processElseIfChain_inverted(e, expression, previousHookShown) ==
    IF ~NodeMatches(expression[1])
    THEN CR(NilResult, "invalid else-if statement syntax", e.heap)
    ELSE IF previousHookShown THEN CR(ConditionalResult(FALSE, "", "else-if"), "", e.heap)
    ELSE Only({ IF c.err # "" THEN CR(NilResult, "error evaluating else-if condition", c.heap)
                ELSE IF ~c.val
                     THEN CR(ConditionalResult(TRUE, expression[1].hook, "else-if"), "", c.heap)
                ELSE IF HasPrefixNode(Tail(expression), "else-if")
                     THEN processElseIfChain_inverted(WithHeap(e, c.heap), Tail(expression), FALSE)
                ELSE IF HasPrefixNode(Tail(expression), "else")
                     THEN processElse(WithHeap(e, c.heap), Tail(expression), FALSE)
                ELSE CR(ConditionalResult(FALSE, "", "else-if"), "", c.heap)
                : c \in { ch_EvaluateCondition(e, expression[1].cond) } })

\* processElseIfChain
RECURSIVE processElseIfChain(_, _, _)
processElseIfChain(e, expression, previousHookShown) ==
    IF ~NodeMatches(expression[1])
    THEN CR(NilResult, "invalid else-if statement syntax", e.heap)
    ELSE IF previousHookShown THEN CR(ConditionalResult(FALSE, "", "else-if"), "", e.heap)
    ELSE Only({ IF c.err # "" THEN CR(NilResult, "error evaluating else-if condition", c.heap)
                ELSE IF c.val
                     THEN CR(ConditionalResult(TRUE, expression[1].hook, "else-if"), "", c.heap)
                ELSE IF HasPrefixNode(Tail(expression), "else-if")
                     THEN processElseIfChain(WithHeap(e, c.heap), Tail(expression), FALSE)
                ELSE IF HasPrefixNode(Tail(expression), "else")
                     THEN processElse(WithHeap(e, c.heap), Tail(expression), FALSE)
                ELSE CR(ConditionalResult(FALSE, "", "else-if"), "", c.heap)
                : c \in { ch_EvaluateCondition(e, expression[1].cond) } })

\* processIfChain
processIfChain(e, expression) ==
    IF ~NodeMatches(expression[1]) THEN CR(NilResult, "invalid if statement syntax", e.heap)
    ELSE Only({ IF c.err # "" THEN CR(NilResult, "error evaluating if condition", c.heap)
                ELSE IF c.val
                     THEN CR(ConditionalResult(TRUE, expression[1].hook, "if"), "", c.heap)
                ELSE IF HasPrefixNode(Tail(expression), "else-if")
                     THEN processElseIfChain(WithHeap(e, c.heap), Tail(expression), FALSE)
                ELSE IF HasPrefixNode(Tail(expression), "else")
                     THEN processElse(WithHeap(e, c.heap), Tail(expression), FALSE)
                ELSE CR(ConditionalResult(FALSE, "", "if"), "", c.heap)
                : c \in { ch_EvaluateCondition(e, expression[1].cond) } })

\* processUnlessChain
processUnlessChain(e, expression) ==
    IF ~NodeMatches(expression[1])
    THEN CR(NilResult, "invalid unless statement syntax", e.heap)
    ELSE Only({ IF c.err # "" THEN CR(NilResult, "error evaluating unless condition", c.heap)
                ELSE IF ~c.val
                     THEN CR(ConditionalResult(TRUE, expression[1].hook, "unless"), "", c.heap)
                ELSE IF HasPrefixNode(Tail(expression), "else-if")
                     THEN processElseIfChain(WithHeap(e, c.heap), Tail(expression), FALSE)
                ELSE IF HasPrefixNode(Tail(expression), "else")
                     THEN processElse(WithHeap(e, c.heap), Tail(expression), FALSE)
                ELSE CR(ConditionalResult(FALSE, "", "unless"), "", c.heap)
                : c \in { ch_EvaluateCondition(e, expression[1].cond) } })

\* ProcessConditionalChain
ProcessConditionalChain(e, expression) ==
    IF HasPrefixNode(expression, "if") THEN processIfChain(e, expression)
    ELSE IF HasPrefixNode(expression, "unless") THEN processUnlessChain(e, expression)
    ELSE IF HasPrefixNode(expression, "else-if") \/ HasPrefixNode(expression, "else")
         THEN CR(NilResult, "(else-if:) and (else:) require a preceding (if:) or (unless:)", e.heap)
    ELSE CR(NilResult, "not a conditional expression", e.heap)

(***************************************************************************)
(* Writes to the evaluator's state (evaluator.go 170-318) and assignments  *)
(* (literals.go 275-325).  Each returns E(error, evaluator after the call).*)
(***************************************************************************)
E(err, e) == [err |-> err, e |-> e]

\* a plausible slip: a nested value that is no datamap is replaced by a new
\* datamap before the error is returned
RECURSIVE SetPropertyLoop_replace(_, _, _, _, _)
SetPropertyLoop_replace(heap, current, properties, i, value) ==
    LET prop == properties[i]
        datamap == heap[current.ref]
    IN  IF i = Len(properties)
        THEN [err |-> "", heap |-> [heap EXCEPT ![current.ref] = MapPut(datamap, prop, value)]]
        ELSE IF prop \in DOMAIN datamap /\ datamap[prop].kind # "datamap"
        THEN [err |-> "cannot set nested property",
              heap |-> Append([heap EXCEPT ![current.ref] =
                                  MapPut(datamap, prop, Dm(Len(heap) + 1))], EmptyMap)]
        ELSE LET heap1 == IF prop \in DOMAIN datamap THEN heap
                          ELSE Append([heap EXCEPT ![current.ref] =
                                          MapPut(datamap, prop, Dm(Len(heap) + 1))],
                                      EmptyMap)
             IN  SetPropertyLoop_replace(heap1, heap1[current.ref][prop], properties, i + 1, value)

\* the loop of SetProperty from the i-th property on; current is a datamap
RECURSIVE SetPropertyLoop(_, _, _, _, _)
SetPropertyLoop(heap, current, properties, i, value) ==
    LET prop == properties[i]
        datamap == heap[current.ref]
    IN  IF i = Len(properties)
        THEN [err |-> "", heap |-> [heap EXCEPT ![current.ref] = MapPut(datamap, prop, value)]]
        ELSE LET heap1 == IF prop \in DOMAIN datamap THEN heap
                          ELSE Append([heap EXCEPT ![current.ref] =
                                          MapPut(datamap, prop, Dm(Len(heap) + 1))],
                                      EmptyMap)
                 next == heap1[current.ref][prop]
             IN  IF next.kind # "datamap"
                 THEN [err |-> "cannot set nested property", heap |-> heap1]
                 ELSE SetPropertyLoop(heap1, next, properties, i + 1, value)

\* a plausible slip: an absent base variable is created as an empty datamap
SetProperty_createbase(e, varPath, value) ==
    Only({ IF Len(parts) < 2 THEN E("invalid property path", e)
           ELSE IF parts[1] \in DOMAIN e.state /\ e.state[parts[1]].kind # "datamap"
                THEN E("cannot set property: variable is not a datamap", e)
           ELSE Only({ Only({ E(r.err, [base EXCEPT !.heap = r.heap])
                              : r \in { SetPropertyLoop(base.heap, base.state[parts[1]],
                                                        Tail(parts), 1, value) } })
                       : base \in { IF parts[1] \in DOMAIN e.state THEN e
                                    ELSE [e EXCEPT
                                             !.state = MapPut(@, parts[1], Dm(Len(e.heap) + 1)),
                                             !.heap = Append(@, EmptyMap)] } })
           : parts \in { parsePropertyPath(varPath) } })

\* SetProperty
SetProperty(e, varPath, value) ==
    Only({ IF Len(parts) < 2 THEN E("invalid property path", e)
           ELSE IF parts[1] \notin DOMAIN e.state
                THEN E("cannot set property on non-existent variable", e)
           ELSE IF e.state[parts[1]].kind # "datamap"
                THEN E("cannot set property: variable is not a datamap", e)
           ELSE Only({ E(r.err, WithHeap(e, r.heap))
                       : r \in { SetPropertyLoop(e.heap, e.state[parts[1]], Tail(parts), 1,
                                                 value) } })
           : parts \in { parsePropertyPath(varPath) } })

\* strings.TrimPrefix(text, "$")
TrimDollar(x) == IF x.t = "var" THEN x.name ELSE TextOf(x)

\* Put
Put(e, value, target) ==
    IF ContainsPoss(target) THEN SetProperty(e, target, value)
    ELSE E("", [e EXCEPT !.state = MapPut(@, TrimDollar(target), value)])

\* a plausible slip: the source is reset also when the put failed
Move_resetalways(e, source, dest) ==
    IF TrimDollar(source) \notin DOMAIN e.state THEN E("source variable does not exist", e)
    ELSE Only({ E(p.err, [p.e EXCEPT !.state = MapPut(@, TrimDollar(source), Num(0))])
                : p \in { Put(e, e.state[TrimDollar(source)], dest) } })

\* Move: the source is left holding the int 0
Move(e, source, dest) ==
    IF TrimDollar(source) \notin DOMAIN e.state THEN E("source variable does not exist", e)
    ELSE Only({ IF p.err # "" THEN p
                ELSE E("", [p.e EXCEPT !.state = MapPut(@, TrimDollar(source), Num(0))])
                : p \in { Put(e, e.state[TrimDollar(source)], dest) } })

\* valueToString: the text a value is written as inside an expression
valueToString(heap, value) ==
    CASE value.kind = "string" -> XStr(value.s)
      [] value.kind = "number" -> XNum(value.n)
      [] value.kind = "boolean" -> XBool(value.b)
      [] OTHER -> [t |-> "raw", s |-> Sprintv(heap, value)]

\* regexp \bit\b ReplaceAllString
RECURSIVE ReplaceAllIt(_, _)
ReplaceAllIt(x, valueStr) ==
    CASE x.t = "it" -> valueStr
      [] x.t = "bin" -> XBin(x.op, ReplaceAllIt(x.l, valueStr), ReplaceAllIt(x.r, valueStr))
      [] x.t = "not" -> XNot(ReplaceAllIt(x.c, valueStr))
      [] x.t \in {"arr", "dm", "ds"} ->
            [x EXCEPT !.elems = [i \in 1..Len(x.elems) |-> ReplaceAllIt(x.elems[i], valueStr)]]
      [] OTHER -> x

\* ReplaceItKeyword
ReplaceItKeyword(e, expression, varName) ==
    IF varName \notin DOMAIN e.state
    THEN [text |-> expression, err |-> "variable does not exist for 'it' replacement"]
    ELSE [text |-> ReplaceAllIt(expression, valueToString(e.heap, e.state[varName])),
          err |-> ""]

\* extractVarName
extractVarName(varPath) == IF varPath.t = "prop" THEN varPath.name ELSE TrimDollar(varPath)

\* ParseAssignment of "target to value"
ParseAssignment(assignment, e) ==
    IF assignment.malformed THEN E("invalid assignment syntax", e)
    ELSE IF Lead(assignment.target).t \notin {"var", "prop"}
         THEN E("assignment target must be a variable", e)
    ELSE Only({ Only({ IF r.err # "" THEN E("error parsing value", WithHeap(e, r.heap))
                       ELSE IF ContainsPoss(assignment.target)
                            THEN SetProperty(WithHeap(e, r.heap), assignment.target, r.val)
                       ELSE E("", [WithHeap(e, r.heap) EXCEPT
                                      !.state = MapPut(@, TrimDollar(assignment.target), r.val)])
                       : r \in { ParseValue(IF ContainsIt(assignment.value) /\ replaced.err = ""
                                            THEN replaced.text ELSE assignment.value, e) } })
                : replaced \in { ReplaceItKeyword(e, assignment.value,
                                                  extractVarName(assignment.target)) } })

(***************************************************************************)
(* Passage content and the format's macro processing (HarloweFormat).      *)
(* A content is the sequence of its macros and links in text order:        *)
(*   [m |-> "set", assignments]     (set: a1, a2, ...)                     *)
(*   [m |-> "put", value, target]   (put: value into target)               *)
(*   [m |-> "move", source, dest]   (move: source into dest)               *)
(*   [m |-> "link", target]         [[target]] or [[text->target]]         *)
(* An assignment is [target, value, malformed]; malformed is a text that   *)
(* does not split in two at " to ".                                        *)
(***************************************************************************)
Assign(target, value) == [target |-> target, value |-> value, malformed |-> FALSE]
SetMacro(assignments) == [m |-> "set", assignments |-> assignments]
PutMacro(value, target) == [m |-> "put", value |-> value, target |-> target]
MoveMacro(source, dest) == [m |-> "move", source |-> source, dest |-> dest]
Link(target) == [m |-> "link", target |-> target]

\* the items of a content that are macros of one kind, in text order
MacrosOf(content, m) == SelectSeq(content, LAMBDA item : item.m = m)

\* ParseLinks: the target of every link, in text order
ParseLinks(content) ==
    LET links == MacrosOf(content, "link") IN
    [i \in 1..Len(links) |-> links[i].target]

\* CreateEvaluator
CreateEvaluator(initialState, heap) == NewHarloweEvaluator(initialState, heap)

\* findMatchingParen(content, openPos): -1 unless the character at openPos is
\* "("; the macros of the model are balanced, so from a "(" the end is found
findMatchingParen(atOpenParen) == IF ~atOpenParen THEN -1 ELSE 0

\* the assignments of one (set:) macro, each through ParseAssignment, errors dropped
RECURSIVE SetAssignments(_, _, _)
SetAssignments(e, assignments, i) ==
    IF i > Len(assignments) THEN e
    ELSE Only({ SetAssignments(a.e, assignments, i + 1)
                : a \in { ParseAssignment(assignments[i], e) } })

\* parseSetMacro: findMatchingParen is called on idx[0], the macro's "("
RECURSIVE parseSetMacro(_, _, _)
parseSetMacro(macros, i, e) ==
    IF i > Len(macros) THEN e
    ELSE IF findMatchingParen(TRUE) = -1 THEN parseSetMacro(macros, i + 1, e)
    ELSE Only({ parseSetMacro(macros, i + 1, e2)
                : e2 \in { SetAssignments(e, macros[i].assignments, 1) } })

\* parsePutMacro: findMatchingParen is called on start-1, the last character
\* of the match of \(put:\s* , which is ":" or white space and never "("
RECURSIVE parsePutMacro(_, _, _)
parsePutMacro(macros, i, e) ==
    IF i > Len(macros) THEN e
    ELSE IF findMatchingParen(FALSE) = -1 THEN parsePutMacro(macros, i + 1, e)
    ELSE Only({ Only({ parsePutMacro(macros, i + 1, p.e)
                       : p \in { Put(WithHeap(e, r.heap),
                                     IF r.err # "" THEN Str(TextOf(macros[i].value)) ELSE r.val,
                                     macros[i].target) } })
                : r \in { ParseValue(macros[i].value, e) } })

\* parseMoveMacro: the same call of findMatchingParen on start-1
RECURSIVE parseMoveMacro(_, _, _)
parseMoveMacro(macros, i, e) ==
    IF i > Len(macros) THEN e
    ELSE IF findMatchingParen(FALSE) = -1 THEN parseMoveMacro(macros, i + 1, e)
    ELSE Only({ parseMoveMacro(macros, i + 1, m.e)
                : m \in { Move(e, macros[i].source, macros[i].dest) } })

\* ProcessPassageContent: every set, then every put, then every move; the
\* error returned is always nil
ProcessPassageContent(content, e) ==
    Only({ Only({ Only({ E("", e3)
                         : e3 \in { parseMoveMacro(MacrosOf(content, "move"), 1, e2) } })
                  : e2 \in { parsePutMacro(MacrosOf(content, "put"), 1, e1) } })
           : e1 \in { parseSetMacro(MacrosOf(content, "set"), 1, e) } })

(***************************************************************************)
(* The path simulator (simulator package).  A story is a function from the *)
(* titles of its passages to their contents.                               *)
(***************************************************************************)
NoVisits == [t \in {} |-> 0]

NewPathSimulator(story) == [story |-> story, visitedPassages |-> NoVisits, history |-> << >>]

\* the two messages of ValidatePath
MissingError(i, passageTitle) == [k |-> "missing", step |-> i, title |-> passageTitle]
NoLinkError(i, currentTitle, nextTitle, links) ==
    [k |-> "nolink", step |-> i, from |-> currentTitle, to |-> nextTitle, links |-> links]

\* the first loop of ValidatePath, from position i on
RECURSIVE MissingErrors(_, _, _)
MissingErrors(story, path, i) ==
    IF i > Len(path) THEN << >>
    ELSE (IF path[i] \notin DOMAIN story THEN << MissingError(i, path[i]) >> ELSE << >>)
         \o MissingErrors(story, path, i + 1)

\* the second loop of ValidatePath, from the pair (i, i+1) on
RECURSIVE LinkErrors(_, _, _)
LinkErrors(story, path, i) ==
    IF i >= Len(path) THEN << >>
    ELSE IF path[i] \notin DOMAIN story THEN LinkErrors(story, path, i + 1)
    ELSE LET links == ParseLinks(story[path[i]])
             linked == \E j \in 1..Len(links) : links[j] = path[i + 1]
         IN  (IF ~linked THEN << NoLinkError(i, path[i], path[i + 1], links) >> ELSE << >>)
             \o LinkErrors(story, path, i + 1)

\* a plausible slip: validation stops at the first error
ValidatePath_first(sim, path) ==
    LET all == MissingErrors(sim.story, path, 1) \o LinkErrors(sim.story, path, 1) IN
    IF all = << >> THEN all ELSE << all[1] >>

\* ValidatePath
ValidatePath(sim, path) ==
    MissingErrors(sim.story, path, 1) \o LinkErrors(sim.story, path, 1)

\* fmt.Sscanf(v, "%f", &num) on the strings of the model
Sscanf(s) == ParseFloat(s)

\* a plausible slip: only numbers convert
sim_toNumber_strict(value) ==
    IF value.kind = "number" THEN [num |-> value.n, ok |-> TRUE] ELSE [num |-> 0, ok |-> FALSE]

\* the simulator's toNumber: int, int64, float64, or a string Sscanf reads
sim_toNumber(value) ==
    CASE value.kind = "number" -> [num |-> value.n, ok |-> TRUE]
      [] value.kind = "string" -> Sscanf(value.s)
      [] OTHER -> [num |-> 0, ok |-> FALSE]

\* copyState: a new top-level map holding the same values
copyState(state) == [k \in DOMAIN state |-> state[k]]

\* the VariableChange of one variable (SimulatePath, step 6)
VariableChange(varName, stateBefore, newValue) ==
    LET existed == varName \in DOMAIN stateBefore
        prev == IF existed THEN sim_toNumber(stateBefore[varName]) ELSE [num |-> 0, ok |-> FALSE]
        curr == sim_toNumber(newValue)
    IN  [Name |-> varName,
         Previous |-> IF existed THEN stateBefore[varName] ELSE NilValue,
         Current |-> newValue,
         Delta |-> IF existed /\ prev.ok /\ curr.ok THEN Num(curr.num - prev.num) ELSE NilValue]

CriticalThreshold == 20

WatchedNames == << "vita", "health", "hp" >>

\* a plausible slip: a warning only when the value came down to the threshold
\* in this step
RECURSIVE generateWarnings_crossing(_, _)
generateWarnings_crossing(changes, i) ==
    IF i > Len(WatchedNames) THEN << >>
    ELSE LET varName == WatchedNames[i]
             val == IF varName \in DOMAIN changes THEN sim_toNumber(changes[varName].Current)
                    ELSE [num |-> 0, ok |-> FALSE]
             prev == IF varName \in DOMAIN changes
                     THEN sim_toNumber(changes[varName].Previous)
                     ELSE [num |-> 0, ok |-> FALSE]
         IN  (IF ~val.ok THEN << >>
              ELSE IF val.num <= 0 /\ (~prev.ok \/ prev.num > 0)
                   THEN << [k |-> "zero", name |-> varName, val |-> val.num] >>
              ELSE IF val.num > 0 /\ val.num <= CriticalThreshold
                      /\ (~prev.ok \/ prev.num > CriticalThreshold)
                   THEN << [k |-> "critical", name |-> varName, val |-> val.num] >>
              ELSE << >>)
             \o generateWarnings_crossing(changes, i + 1)

\* generateWarnings.  The source ranges over a Go map, whose order is not
\* fixed; the warnings are listed here in the order of WatchedNames.
RECURSIVE generateWarnings(_, _)
generateWarnings(changes, i) ==
    IF i > Len(WatchedNames) THEN << >>
    ELSE LET varName == WatchedNames[i]
             val == IF varName \in DOMAIN changes THEN sim_toNumber(changes[varName].Current)
                    ELSE [num |-> 0, ok |-> FALSE]
         IN  (IF ~val.ok THEN << >>
              ELSE IF val.num <= 0 THEN << [k |-> "zero", name |-> varName, val |-> val.num] >>
              ELSE IF val.num <= CriticalThreshold
                   THEN << [k |-> "critical", name |-> varName, val |-> val.num] >>
              ELSE << >>)
             \o generateWarnings(changes, i + 1)

\* a plausible slip: a step that changed no variable is not recorded
AppendStep_changedonly(steps, stepResult) ==
    IF \A v \in DOMAIN stepResult.Changes :
          stepResult.Changes[v].Previous = stepResult.Changes[v].Current
    THEN steps
    ELSE Append(steps, stepResult)

\* result.Steps = append(result.Steps, stepResult)
AppendStep(steps, stepResult) == Append(steps, stepResult)

\* the running values of SimulatePath's loop
Run(sim, currentState, heap, steps, totalWarnings, created, contexts) ==
    [sim |-> sim, currentState |-> currentState, heap |-> heap, steps |-> steps,
     totalWarnings |-> totalWarnings, created |-> created, contexts |-> contexts]

\* the context an evaluator processes a passage in, and the maps as they
\* are when it starts
Context(e) ==
    [currentPassage |-> e.currentPassage, history |-> e.history,
     visitedPassages |-> e.visitedPassages, heap |-> e.heap]

\* a plausible slip: the evaluator is given the counts and the history as
\* they were before the step's own visit was recorded
StepEvaluator_stale(run, passageTitle, visitedPassages, history) ==
    [CreateEvaluator(run.currentState, run.heap) EXCEPT
        !.visitedPassages = run.sim.visitedPassages,
        !.history = run.sim.history,
        !.currentPassage = passageTitle]

\* the evaluator of one step: CreateEvaluator on the current state, then the
\* simulator's visit counts, history and current passage copied into it
StepEvaluator(run, passageTitle, visitedPassages, history) ==
    [CreateEvaluator(run.currentState, run.heap) EXCEPT
        !.visitedPassages = visitedPassages,
        !.history = history,
        !.currentPassage = passageTitle]

\* the changes of one step: one VariableChange per variable of the new state
Changes(stateBefore, newState) ==
    [varName \in DOMAIN newState |-> VariableChange(varName, stateBefore, newState[varName])]

\* one pass of SimulatePath's loop, for the i-th title: a title that is no
\* passage is skipped; created counts the evaluators made by CreateEvaluator,
\* contexts lists the context each of them processed its passage in
SimulateStep(path, i, run) ==
    IF path[i] \notin DOMAIN run.sim.story THEN run
    ELSE Only({ Only({ Only({ Only({ Only({
          Run([run.sim EXCEPT !.visitedPassages = visitedPassages, !.history = history],
              after.state, after.heap,
              AppendStep(run.steps,
                         [PassageTitle |-> path[i],
                          PassageIndex |-> i,
                          Changes |-> changes,
                          Warnings |-> warnings,
                          AvailableLinks |-> ParseLinks(run.sim.story[path[i]])]),
              run.totalWarnings + Len(warnings), run.created + 1,
              Append(run.contexts, Context(evaluator)))
        : warnings \in { generateWarnings(changes, 1) } })
        : changes \in { Changes(stateBefore, after.state) } })
        : after \in { ProcessPassageContent(run.sim.story[path[i]], evaluator).e } })
        : evaluator \in { StepEvaluator(run, path[i], visitedPassages, history) } })
        : visitedPassages \in
              { MapPut(run.sim.visitedPassages, path[i],
                       (IF path[i] \in DOMAIN run.sim.visitedPassages
                        THEN run.sim.visitedPassages[path[i]] ELSE 0) + 1) },
          history \in { Append(run.sim.history, path[i]) },
          stateBefore \in { copyState(run.currentState) } })

\* the loop of SimulatePath from the i-th title on
RECURSIVE SimulateLoop(_, _, _)
SimulateLoop(path, i, run) ==
    IF i > Len(path) THEN run
    ELSE Only({ SimulateLoop(path, i + 1, next) : next \in { SimulateStep(path, i, run) } })

SimulationResult(success, path, steps, finalState, errors, totalWarnings) ==
    [Success |-> success, Path |-> path, Steps |-> steps, FinalState |-> finalState,
     Errors |-> errors, TotalWarnings |-> totalWarnings]

\* what a call of SimulatePath leaves: the result, the simulator's fields,
\* the maps the result refers to, the number of evaluators it created and
\* the contexts they ran in
Outcome(result, sim, heap, created, contexts) ==
    [result |-> result, sim |-> sim, heap |-> heap, created |-> created,
     contexts |-> contexts]

\* a plausible slip: the validation errors are reported but the run goes on
SimulatePath_runanyway(sim, path) ==
    Only({ Outcome(SimulationResult(validationErrors = << >>, path, run.steps,
                                    run.currentState, validationErrors, run.totalWarnings),
                   run.sim, run.heap, run.created, run.contexts)
           : validationErrors \in { ValidatePath(sim, path) },
             run \in { SimulateLoop(path, 1,
                           Run([sim EXCEPT !.visitedPassages = NoVisits, !.history = << >>],
                               EmptyMap, << >>, << >>, 0, 0, << >>)) } })

\* a plausible slip: the visit counts and the history are not reset
SimulatePath_noreset(sim, path) ==
    Only({ IF Len(validationErrors) > 0
           THEN Outcome(SimulationResult(FALSE, path, << >>, EmptyMap, validationErrors, 0),
                        sim, << >>, 0, << >>)
           ELSE Only({ Outcome(SimulationResult(TRUE, path, run.steps, run.currentState,
                                                << >>, run.totalWarnings),
                               run.sim, run.heap, run.created, run.contexts)
                       : run \in { SimulateLoop(path, 1,
                                       Run(sim, EmptyMap, << >>, << >>, 0, 0, << >>)) } })
           : validationErrors \in { ValidatePath(sim, path) } })

\* SimulatePath
SimulatePath(sim, path) ==
    Only({ IF Len(validationErrors) > 0
           THEN Outcome(SimulationResult(FALSE, path, << >>, EmptyMap, validationErrors, 0),
                        sim, << >>, 0, << >>)
           ELSE Only({ Outcome(SimulationResult(TRUE, path, run.steps, run.currentState,
                                                << >>, run.totalWarnings),
                               run.sim, run.heap, run.created, run.contexts)
                       : run \in { SimulateLoop(path, 1,
                                       Run([sim EXCEPT !.visitedPassages = NoVisits,
                                                       !.history = << >>],
                                           EmptyMap, << >>, << >>, 0, 0, << >>)) } })
           : validationErrors \in { ValidatePath(sim, path) } })

SuggestedCap == 10

\* the paths the links of the last passage extend currentPath to
Extensions(currentPath, links) == [i \in 1..Len(links) |-> Append(currentPath, links[i])]

\* a plausible slip: the depth is counted in links, one more passage is walked
RECURSIVE SuggestLoop_bylinks(_, _, _, _)
SuggestLoop_bylinks(sim, queue, paths, maxDepth) ==
    IF ~(Len(queue) > 0 /\ Len(paths) < SuggestedCap) THEN paths
    ELSE Only({ SuggestLoop_bylinks(sim, next.queue, next.paths, maxDepth)
                : next \in {
                    IF Len(Head(queue)) - 1 >= maxDepth
                    THEN [queue |-> Tail(queue), paths |-> Append(paths, Head(queue))]
                    ELSE IF Head(queue)[Len(Head(queue))] \notin DOMAIN sim.story
                    THEN [queue |-> Tail(queue), paths |-> paths]
                    ELSE IF Len(ParseLinks(sim.story[Head(queue)[Len(Head(queue))]])) = 0
                    THEN [queue |-> Tail(queue), paths |-> Append(paths, Head(queue))]
                    ELSE [queue |-> Tail(queue)
                                    \o Extensions(Head(queue),
                                          ParseLinks(sim.story[Head(queue)[Len(Head(queue))]])),
                          paths |-> paths] } })

\* a plausible slip: a path is collected only when it is longer than maxDepth
SuggestIteration_beyond(sim, queue, paths, maxDepth) ==
    IF Len(Head(queue)) > maxDepth
    THEN [queue |-> Tail(queue), paths |-> Append(paths, Head(queue))]
    ELSE IF Head(queue)[Len(Head(queue))] \notin DOMAIN sim.story
    THEN [queue |-> Tail(queue), paths |-> paths]
    ELSE IF Len(ParseLinks(sim.story[Head(queue)[Len(Head(queue))]])) = 0
    THEN [queue |-> Tail(queue), paths |-> Append(paths, Head(queue))]
    ELSE [queue |-> Tail(queue)
                    \o Extensions(Head(queue),
                          ParseLinks(sim.story[Head(queue)[Len(Head(queue))]])),
          paths |-> paths]

\* one pass of the loop of GetSuggestedPaths: the queue and the paths after
\* the head of the queue has been taken
SuggestIteration(sim, queue, paths, maxDepth) ==
    IF Len(Head(queue)) >= maxDepth
    THEN [queue |-> Tail(queue), paths |-> Append(paths, Head(queue))]
    ELSE IF Head(queue)[Len(Head(queue))] \notin DOMAIN sim.story
    THEN [queue |-> Tail(queue), paths |-> paths]
    ELSE IF Len(ParseLinks(sim.story[Head(queue)[Len(Head(queue))]])) = 0
    THEN [queue |-> Tail(queue), paths |-> Append(paths, Head(queue))]
    ELSE [queue |-> Tail(queue)
                    \o Extensions(Head(queue),
                          ParseLinks(sim.story[Head(queue)[Len(Head(queue))]])),
          paths |-> paths]

\* the loop of GetSuggestedPaths over its queue
RECURSIVE SuggestLoop(_, _, _, _)
SuggestLoop(sim, queue, paths, maxDepth) ==
    IF ~(Len(queue) > 0 /\ Len(paths) < SuggestedCap) THEN paths
    ELSE Only({ SuggestLoop(sim, next.queue, next.paths, maxDepth)
                : next \in { SuggestIteration(sim, queue, paths, maxDepth) } })

\* GetSuggestedPaths
GetSuggestedPaths(sim, startPassage, maxDepth) ==
    SuggestLoop(sim, << << startPassage >> >>, << >>, maxDepth)

(***************************************************************************)
(* Specification SpecChain: a ConditionalHandler over an evaluator whose   *)
(* state is drawn at Init; each call of ProcessConditionalChain is given a *)
(* chain text of at most MaxChain nodes.                                   *)
(***************************************************************************)
\* the heap the evaluators of the model start from: an empty and a non-empty map
ChainHeap == << EmptyMap, MapPut(EmptyMap, "k", Num(1)) >>

\* the values $x is given
ChainValues ==
    { Bool(TRUE), Bool(FALSE), Num(0), Num(2), Str(""), Str("a"),
      Arr(<< >>), Arr(<< Num(1) >>), Dm(1), Dm(2), Ds({"a"}) }

ChainStates ==
    { EmptyMap } \cup { MapPut(EmptyMap, "x", v) : v \in ChainValues }
    \cup { MapPut(MapPut(EmptyMap, "x", v), "y", Num(2)) : v \in ChainValues \cup {NilValue} }

\* the condition texts: $x, $y, not $x, $x > 1, $y > 1, (visited: "A")
ChainConds ==
    { XVar("x"), XVar("y"), XNot(XVar("x")), XBin(">", XVar("x"), XNum(1)), XVisited("A") }

\* the head node is any macro; the nodes after it are else-if, else or a stray if
HeadShapes ==
    { [kind |-> k, cond |-> c] : k \in {"if", "unless", "else-if"}, c \in ChainConds }
    \cup { [kind |-> "else", cond |-> XBool(TRUE)] }

TailShapes ==
    { [kind |-> "else-if", cond |-> c] : c \in ChainConds }
    \cup { [kind |-> "else", cond |-> XBool(TRUE)], [kind |-> "if", cond |-> XVar("y")] }

\* the chain text of the shapes, the node at position missing written without its hook
ChainOf(shapes, missing) ==
    [i \in 1..Len(shapes) |->
        [kind |-> shapes[i].kind, cond |-> shapes[i].cond,
         hasHook |-> i # missing, hook |-> "H" \o ToString(i)]]

Chains(n) ==
    IF n = 0 THEN { << >> }
    ELSE { ChainOf(<< h >> \o t, m) :
             h \in HeadShapes, t \in [1..(n - 1) -> TailShapes], m \in 0..n }

InitChain ==
    /\ \E st \in ChainStates : eval = NewHarloweEvaluator(st, ChainHeap)
    /\ ps = [story |-> << >>]
    /\ call = NoCall
    /\ ret = NoRet

\* ch.ProcessConditionalChain(expression)
DoProcessConditionalChain ==
    /\ call = NoCall
    /\ \E n \in 0..MaxChain : \E expression \in Chains(n) :
          \E r \in { ProcessConditionalChain(eval, expression) } :
              /\ call' = [op |-> "ProcessConditionalChain", expression |-> expression]
              /\ ret' = [op |-> "ProcessConditionalChain", res |-> r.res, err |-> r.err]
              /\ eval' = WithHeap(eval, r.heap)
    /\ UNCHANGED ps

\* the caller takes the result
ReturnChain ==
    /\ call # NoCall
    /\ call' = NoCall
    /\ ret' = NoRet
    /\ UNCHANGED <<eval, ps>>

NextChain == DoProcessConditionalChain \/ ReturnChain

SpecChain == InitChain /\ [][NextChain]_vars

(***************************************************************************)
(* Properties of the conditional chain processor (under SpecChain).        *)
(***************************************************************************)
ChainCall == ret.op = "ProcessConditionalChain"

\* the node's own condition holds in the evaluator's state; else always holds
CondHolds(e, node) ==
    \/ node.kind = "else"
    \/ LET c == ch_EvaluateCondition(e, node.cond) IN c.err = "" /\ c.val

\* the node's condition cannot be read off the text or fails to evaluate
CondFails(e, node) ==
    /\ node.kind # "else"
    /\ HasParen(node.cond) \/ ch_EvaluateCondition(e, node.cond).err # ""

\* lead / else-if* / else?, every node with its hook
WellFormedChain(x, lead) ==
    /\ Len(x) >= 1
    /\ x[1].kind = lead
    /\ \A i \in 1..Len(x) :
          /\ x[i].hasHook
          /\ i > 1 => x[i].kind = "else-if" \/ (x[i].kind = "else" /\ i = Len(x))

\* the first position from `from` on whose condition holds, 0 when there is none
FirstHolding(e, x, from) ==
    LET S == { i \in from..Len(x) : CondHolds(e, x[i]) } IN
    IF S = {} THEN 0 ELSE CHOOSE i \in S : \A j \in S : i <= j

\* C1: for a well-formed if / else-if* / else? chain, a result without error
\* carries the hook (and kind) of the first node in source order whose own
\* condition holds, else counting as holding, and nothing of any later node;
\* when no node holds no hook is active; an error is returned only when a
\* condition not preceded by a holding node cannot be evaluated, and then
\* there is no result and so no hook.
C1_ChainExclusivity ==
    (ChainCall /\ WellFormedChain(call.expression, "if")) =>
        LET x == call.expression
            k == FirstHolding(eval, x, 1)
        IN  /\ (ret.err = "" /\ ret.res.ConditionMet) =>
                  /\ k # 0
                  /\ ret.res.ActiveHook = x[k].hook
                  /\ ret.res.HookType = x[k].kind
            /\ (ret.err = "" /\ ~ret.res.ConditionMet) =>
                  k = 0 /\ ret.res.ActiveHook = ""
            /\ ret.err # "" =>
                  /\ ret.res = NilResult
                  /\ \E i \in 1..Len(x) : CondFails(eval, x[i]) /\ (k = 0 \/ i < k)

\* a chain of three nodes whose if and first else-if are false and whose second
\* else-if is chosen
C1_Witness ==
    /\ ChainCall /\ WellFormedChain(call.expression, "if")
    /\ Len(call.expression) >= 3
    /\ call.expression[3].kind = "else-if"
    /\ ret.err = "" /\ ret.res.ConditionMet
    /\ ret.res.ActiveHook = call.expression[3].hook

\* C2: in a chain led by (unless: C) whose C evaluates, the leading hook is
\* active (kind unless, conditionMet true) iff C is false; when C is true a
\* result without error carries the first later node whose own condition is
\* true (else-if, not inverted) or the trailing else, and no hook when there
\* is no such node.
C2_UnlessInvertsLeadingOnly ==
    (ChainCall /\ WellFormedChain(call.expression, "unless")
       /\ ~CondFails(eval, call.expression[1])) =>
        LET x == call.expression
            c == ch_EvaluateCondition(eval, x[1].cond)
            k == FirstHolding(eval, x, 2)
        IN  /\ ~c.val => /\ ret.err = ""
                         /\ ret.res = ConditionalResult(TRUE, x[1].hook, "unless")
            /\ c.val => ~(ret.res.ConditionMet /\ ret.res.HookType = "unless")
            /\ (c.val /\ ret.err = "" /\ k # 0) =>
                  ret.res = ConditionalResult(TRUE, x[k].hook, x[k].kind)
            /\ (c.val /\ ret.err = "" /\ k = 0) =>
                  ~ret.res.ConditionMet /\ ret.res.ActiveHook = ""

\* an unless whose condition is true, followed by a false else-if and a true one
C2_Witness ==
    /\ ChainCall /\ WellFormedChain(call.expression, "unless")
    /\ Len(call.expression) >= 3
    /\ ~CondFails(eval, call.expression[1])
    /\ ch_EvaluateCondition(eval, call.expression[1].cond).val
    /\ call.expression[3].kind = "else-if"
    /\ ret.err = ""
    /\ ret.res = ConditionalResult(TRUE, call.expression[3].hook, "else-if")

\* the table of the claim
Truthy(heap, value) ==
    CASE value.kind = "number" -> value.n # 0
      [] value.kind = "string" -> value.s # ""
      [] value.kind = "array" -> value.items # << >>
      [] value.kind = "datamap" -> heap[value.ref] # EmptyMap
      [] value.kind = "boolean" -> value.b

\* a chain led by (if: $x)[hook] where $x holds a value of the table
BareValueCall ==
    /\ ChainCall
    /\ Len(call.expression) >= 1
    /\ call.expression[1] = [kind |-> "if", cond |-> XVar("x"), hasHook |-> TRUE, hook |-> "H1"]
    /\ "x" \in DOMAIN eval.state
    /\ eval.state["x"].kind \in {"number", "string", "array", "datamap", "boolean"}

\* C3: a condition that is a bare value is true exactly as the table says:
\* Number iff nonzero, String iff non-empty, Array and Datamap iff non-empty,
\* Boolean as itself.  The leading hook is returned iff the value is true.
C3_TruthinessTable ==
    BareValueCall =>
        IF Truthy(eval.heap, eval.state["x"])
        THEN ret.err = "" /\ ret.res = ConditionalResult(TRUE, "H1", "if")
        ELSE ret.res.ActiveHook # "H1" /\ ~(ret.res.ConditionMet /\ ret.res.HookType = "if")

\* a non-empty string makes the leading hook active
C3_Witness ==
    /\ BareValueCall
    /\ eval.state["x"] = Str("a")
    /\ ret.res = ConditionalResult(TRUE, "H1", "if")

\* C4 as stated: a chain that begins with else-if or else, or in which any
\* node is missing its hook, returns an error and no result.
C4_MalformedAlwaysError ==
    (/\ ChainCall
     /\ Len(call.expression) >= 1
     /\ \/ call.expression[1].kind \in {"else-if", "else"}
        \/ \E i \in 1..Len(call.expression) : ~call.expression[i].hasHook)
    => (ret.err # "" /\ ret.res = NilResult)

\* what does hold: a chain that begins with else-if or else, or whose leading
\* node is missing its hook, returns an error and no result
C4_LeadingMalformedError ==
    (/\ ChainCall
     /\ Len(call.expression) >= 1
     /\ \/ call.expression[1].kind \in {"else-if", "else"}
        \/ ~call.expression[1].hasHook)
    => (ret.err # "" /\ ret.res = NilResult)

\* a chain whose second node has no hook returns the leading hook and no error
C4_Witness ==
    /\ ChainCall
    /\ Len(call.expression) >= 2
    /\ ~call.expression[2].hasHook
    /\ ret.err = ""
    /\ ret.res.ActiveHook = call.expression[1].hook

(***************************************************************************)
(* Specification SpecSim: a PathSimulator over a story drawn at Init; each *)
(* call of ValidatePath or SimulatePath is given a path of at most MaxPath *)
(* titles, some of which may be no passage of the story.                   *)
(***************************************************************************)
ContentsA ==
    { << SetMacro(<< Assign(XVar("hp"), XNum(10)), Assign(XVar("s"), XStr("7")),
                     Assign(XVar("v"), XVisits) >>),
         Link("B"), Link("C") >>,
      << SetMacro(<< Assign(XVar("hp"), XNum(25)) >>),
         MoveMacro(XVar("hp"), XVar("old")), Link("B") >> }

ContentsB ==
    { << SetMacro(<< Assign(XVar("hp"), XBin("-", XIt, XNum(30))),
                     Assign(XVar("w"), XVisited("A")) >>),
         Link("A"), Link("C") >>,
      << SetMacro(<< Assign(XProp("dm", << "k" >>), XNum(2)) >>),
         SetMacro(<< Assign(XVar("s"), XNum(9)) >>), Link("C") >>,
      << PutMacro(XNum(5), XVar("p")),
         SetMacro(<< [target |-> XVar("q"), value |-> XNum(1), malformed |-> TRUE] >>),
         Link("B"), Link("C") >> }

ContentsC ==
    { << SetMacro(<< Assign(XVar("arr"), XArr(<< XNum(1) >>)),
                     Assign(XVar("dm"), XDm(<< XStr("k"), XNum(1) >>)),
                     Assign(XVar("flag"), XBool(TRUE)),
                     Assign(XVar("ds"), XDs(<< XNum(1) >>)),
                     Assign(XVar("name"), XStr("a")) >>),
         Link("A") >>,
      << >> }

Stories ==
    { [t \in {"A", "B", "C"} |-> CASE t = "A" -> a [] t = "B" -> b [] OTHER -> c] :
        a \in ContentsA, b \in ContentsB, c \in ContentsC }

\* the titles a path is made of; "Z" is a passage of no story
PathTitles == {"A", "B", "C", "Z"}

Paths == UNION { [1..n -> PathTitles] : n \in 0..MaxPath }

InitSim ==
    /\ \E story \in Stories : ps = NewPathSimulator(story)
    /\ eval = NewHarloweEvaluator(EmptyMap, << >>)
    /\ call = NoCall
    /\ ret = NoRet

\* ps.ValidatePath(path)
DoValidatePath ==
    /\ call = NoCall
    /\ \E path \in Paths : \E errors \in { ValidatePath(ps, path) } :
          /\ call' = [op |-> "ValidatePath", path |-> path, before |-> ps]
          /\ ret' = [op |-> "ValidatePath", errors |-> errors]
    /\ UNCHANGED <<eval, ps>>

\* ps.SimulatePath(path)
DoSimulatePath ==
    /\ call = NoCall
    /\ \E path \in Paths : \E out \in { SimulatePath(ps, path) } :
          /\ call' = [op |-> "SimulatePath", path |-> path, before |-> ps]
          /\ ret' = [op |-> "SimulatePath", result |-> out.result, heap |-> out.heap,
                     created |-> out.created, contexts |-> out.contexts]
          /\ ps' = out.sim
    /\ UNCHANGED eval

\* ps.GetSuggestedPaths(startPassage, maxDepth)
DoGetSuggestedPaths ==
    /\ call = NoCall
    /\ \E startPassage \in PathTitles : \E maxDepth \in 0..MaxDepth :
       \E paths \in { GetSuggestedPaths(ps, startPassage, maxDepth) } :
          /\ call' = [op |-> "GetSuggestedPaths", startPassage |-> startPassage,
                      maxDepth |-> maxDepth, before |-> ps]
          /\ ret' = [op |-> "GetSuggestedPaths", paths |-> paths]
    /\ UNCHANGED <<eval, ps>>

\* the caller takes the result
ReturnSim ==
    /\ call # NoCall
    /\ call' = NoCall
    /\ ret' = NoRet
    /\ UNCHANGED <<eval, ps>>

NextSim == DoValidatePath \/ DoSimulatePath \/ DoGetSuggestedPaths \/ ReturnSim

SpecSim == InitSim /\ [][NextSim]_vars

(***************************************************************************)
(* Properties of the path simulator (under SpecSim).                       *)
(***************************************************************************)
SimulateCall == ret.op = "SimulatePath"
ValidateCall == ret.op = "ValidatePath"

Range(seq) == { seq[i] : i \in 1..Len(seq) }

\* the positions of the path whose title is no passage of the story
MissingPositions(story, path) == { i \in 1..Len(path) : path[i] \notin DOMAIN story }

\* the pairs (i, i+1) whose earlier title is a passage that has no link to the later
UnlinkedPairs(story, path) ==
    { i \in 1..(Len(path) - 1) :
        path[i] \in DOMAIN story /\ path[i + 1] \notin Range(ParseLinks(story[path[i]])) }

\* every title exists and every consecutive pair is linked
PathFollowsGraph(story, path) ==
    /\ \A i \in 1..Len(path) : path[i] \in DOMAIN story
    /\ \A i \in 1..(Len(path) - 1) : path[i + 1] \in Range(ParseLinks(story[path[i]]))

\* C5: SimulatePath on a path that fails validation returns success=false
\* with exactly the errors of ValidatePath, no steps and an empty finalState;
\* it creates no evaluator (so processes no content) and leaves the
\* simulator's visit counts and history as they were.
C5_InvalidPathNoExecution ==
    (SimulateCall /\ ~PathFollowsGraph(call.before.story, call.path)) =>
        /\ ret.result.Success = FALSE
        /\ ret.result.Errors = ValidatePath(call.before, call.path)
        /\ ret.result.Errors # << >>
        /\ ret.result.Steps = << >>
        /\ ret.result.FinalState = EmptyMap
        /\ ret.created = 0
        /\ ps = call.before

\* an invalid path given to a simulator that still holds the history of an earlier run
C5_Witness ==
    /\ SimulateCall
    /\ ~PathFollowsGraph(call.before.story, call.path)
    /\ Len(call.before.history) >= 2
    /\ Len(call.path) >= 2
    /\ ret.result.Success = FALSE

\* C6: ValidatePath returns exactly one error for every position whose title
\* is no passage and one for every consecutive pair whose earlier title is a
\* passage without a link to the later title, and nothing else; the list is
\* empty iff every title exists and every consecutive pair is linked; the
\* simulator's fields are left as they were.
C6_ValidateCollectsAll ==
    ValidateCall =>
        LET story == call.before.story
            path == call.path
            errors == ret.errors
        IN  /\ \A i \in MissingPositions(story, path) :
                  Cardinality({ j \in 1..Len(errors) :
                                  errors[j] = MissingError(i, path[i]) }) = 1
            /\ \A i \in UnlinkedPairs(story, path) :
                  Cardinality({ j \in 1..Len(errors) :
                                  /\ errors[j].k = "nolink" /\ errors[j].step = i
                                  /\ errors[j].from = path[i]
                                  /\ errors[j].to = path[i + 1] }) = 1
            /\ Len(errors) = Cardinality(MissingPositions(story, path))
                             + Cardinality(UnlinkedPairs(story, path))
            /\ (errors = << >>) <=> PathFollowsGraph(story, path)
            /\ ps = call.before

\* a path with two missing titles and an unlinked pair, validated after a run
C6_Witness ==
    /\ ValidateCall
    /\ Cardinality(MissingPositions(call.before.story, call.path)) >= 1
    /\ Cardinality(UnlinkedPairs(call.before.story, call.path)) >= 1
    /\ Len(ret.errors) >= 2
    /\ call.before.history # << >>

\* C7: for a path that passes validation SimulatePath returns success=true
\* with no errors and one StepResult per path entry in path order, step i
\* naming path[i] and listing that passage's links; finalState is the state
\* after the last step (the current values of the last step's changes); this
\* also when an assignment inside a step fails.
C7_OneStepPerEntry ==
    (SimulateCall /\ PathFollowsGraph(call.before.story, call.path)) =>
        LET story == call.before.story
            path == call.path
            res == ret.result
        IN  /\ res.Success = TRUE
            /\ res.Errors = << >>
            /\ res.Path = path
            /\ Len(res.Steps) = Len(path)
            /\ \A i \in 1..Len(path) :
                  /\ i <= Len(res.Steps)
                  /\ res.Steps[i].PassageTitle = path[i]
                  /\ res.Steps[i].PassageIndex = i
                  /\ res.Steps[i].AvailableLinks = ParseLinks(story[path[i]])
            /\ IF res.Steps = << >> THEN res.FinalState = EmptyMap
               ELSE LET last == res.Steps[Len(res.Steps)].Changes IN
                    /\ DOMAIN res.FinalState = DOMAIN last
                    /\ \A v \in DOMAIN last : res.FinalState[v] = last[v].Current

\* an assignment of the passage fails when it is processed
HasFailingAssignment(content) ==
    \E k \in 1..Len(content) :
        /\ content[k].m = "set"
        /\ \E a \in 1..Len(content[k].assignments) : content[k].assignments[a].malformed

\* a run of three steps whose second step holds a failing assignment
C7_Witness ==
    /\ SimulateCall
    /\ ret.result.Success
    /\ Len(call.path) = 3
    /\ HasFailingAssignment(call.before.story[call.path[2]])
    /\ Len(ret.result.Steps) = 3

\* the variable state before step i of a result: empty before the first
\* step, the current values of the step before otherwise
StateBeforeStep(steps, i) ==
    IF i = 1 THEN EmptyMap
    ELSE [v \in DOMAIN steps[i - 1].Changes |-> steps[i - 1].Changes[v].Current]

\* the value converts to a number: a Number, or a String holding a numeral
ReadsAsNumber(value) ==
    value.kind = "number" \/ (value.kind = "string" /\ IsNumeral(value.s))

NumberRead(value) ==
    IF value.kind = "number" THEN value.n
    ELSE IF value.s = "0" THEN 0 ELSE NumeralValue(value.s)

ArrayItems == { Num(1), Num(2) }

Arrays == UNION { [1..n -> ArrayItems] : n \in 0..MaxArrayLen }

MapKeys == { "k", "j" }

Maps == UNION { [keys -> { Num(1), Num(2) }] : keys \in SUBSET MapKeys }

\* the maps $a refers to: a value may be the Datamap $b refers to
OuterMaps == UNION { [keys -> { Num(1), Dm(2) }] : keys \in SUBSET MapKeys }

\* the segments a property path of the model ends in: ordinal words and
\* literal integers up to one past the longest array, "last", "length", a key
Segments ==
    { Ordinals[i] : i \in 1..(MaxArrayLen + 1) } \cup { Numerals[i] : i \in 1..(MaxArrayLen + 1) }
    \cup { "last", "length", "k" }

\* the property paths after the base variable: one segment, or the key "k"
\* and then a second segment, or a position or "length" and then a key
PathSegments ==
    { << segment >> : segment \in Segments }
    \cup { << "k", segment >> : segment \in { "k", "j", "length" } }
    \cup { << position, segment >> : position \in { "1st", "last", "length" },
                                     segment \in { "k", "j" } }

\* the operands of the sums: variable references, an array literal, numbers,
\* a quoted string and a boolean
PlusOperands ==
    { XVar("a"), XVar("b"), XVar("arr"), XArr(<< XNum(2) >>), XNum(1), XNum(2), XStr("s"),
      XBool(TRUE) }

\* the variables an expression names: $arr, $a, $b, and $zz which is never set
VarNames == { "arr", "a", "b", "zz" }

\* the expression texts EvaluateExpression is called on
Expressions ==
    { XVar(name) : name \in VarNames }
    \cup { XProp(name, segs) : name \in { "a", "zz" }, segs \in PathSegments }
    \cup { XBin("+", l, r) : l \in PlusOperands, r \in PlusOperands }

InitEval ==
    /\ \E items \in Arrays : \E mapA \in OuterMaps : \E mapB \in Maps :
          eval = NewHarloweEvaluator(
                     [v \in {"arr", "a", "b", "party"} |->
                         CASE v = "arr" -> Arr(items) [] v = "a" -> Dm(1) [] v = "b" -> Dm(2)
                           [] OTHER -> Arr(<< Dm(2) >>)],
                     << mapA, mapB >>)
    /\ ps = [story |-> << >>]
    /\ call = NoCall
    /\ ret = NoRet

\* e.EvaluateExpression(expression)
DoEvaluateExpression ==
    /\ call = NoCall
    /\ \E expression \in Expressions : \E r \in { EvaluateExpression(eval, expression) } :
          /\ call' = [op |-> "EvaluateExpression", expression |-> expression,
                      heapBefore |-> eval.heap]
          /\ ret' = [op |-> "EvaluateExpression", val |-> r.val, err |-> r.err]
          /\ eval' = WithHeap(eval, r.heap)
    /\ UNCHANGED ps

\* e.EvaluatePropertyAccess("$name's segment")
DoEvaluatePropertyAccess ==
    /\ call = NoCall
    /\ \E name \in {"arr", "a", "party", "zz"} : \E segs \in PathSegments :
       \E r \in { EvaluatePropertyAccess(eval, XProp(name, segs)) } :
          /\ call' = [op |-> "EvaluatePropertyAccess",
                      expression |-> XProp(name, segs),
                      heapBefore |-> eval.heap]
          /\ ret' = [op |-> "EvaluatePropertyAccess", val |-> r.val, err |-> r.err]
          /\ eval' = WithHeap(eval, r.heap)
    /\ UNCHANGED ps

\* e.MergeDatamaps(left, right), the operands being values of the state or a number
DoMergeDatamaps ==
    /\ call = NoCall
    /\ \E left \in {eval.state["a"], eval.state["b"], eval.state["arr"], Num(1)} :
       \E right \in {eval.state["a"], eval.state["b"], eval.state["arr"], Num(1)} :
       \E r \in { MergeDatamaps(eval.heap, left, right) } :
          /\ call' = [op |-> "MergeDatamaps", left |-> left, right |-> right,
                      heapBefore |-> eval.heap]
          /\ ret' = [op |-> "MergeDatamaps", val |-> r.val, err |-> r.err]
          /\ eval' = WithHeap(eval, r.heap)
    /\ UNCHANGED ps

\* the elements of the set literals: 1 and "1" are written alike by %v
LiteralElements == { XNum(1), XStr("1"), XStr("a") }

DatasetLiterals == { XDs(elems) : elems \in UNION { [1..n -> LiteralElements] : n \in 0..MaxElems } }

\* h.ParseDatasetLiteral(content)
DoParseDatasetLiteral ==
    /\ call = NoCall
    /\ \E content \in DatasetLiterals : \E arr \in h_ParseDatasetLiteral(content) :
          /\ call' = [op |-> "ParseDatasetLiteral", content |-> content,
                      heapBefore |-> eval.heap]
          /\ ret' = [op |-> "ParseDatasetLiteral", arr |-> arr]
    /\ UNCHANGED <<eval, ps>>

\* the caller takes the result and drops it: the maps the call allocated,
\* which nothing holds any more, are reclaimed
ReturnEval ==
    /\ call # NoCall
    /\ eval' = WithHeap(eval, SubSeq(eval.heap, 1, Len(call.heapBefore)))
    /\ call' = NoCall
    /\ ret' = NoRet
    /\ UNCHANGED ps

NextEval ==
    \/ DoEvaluateExpression
    \/ DoEvaluatePropertyAccess
    \/ DoMergeDatamaps
    \/ DoParseDatasetLiteral
    \/ ReturnEval

SpecEval == InitEval /\ [][NextEval]_vars

(***************************************************************************)
(* Properties of the evaluator (under SpecEval).                           *)
(***************************************************************************)
\* a call of EvaluatePropertyAccess on "$arr's segment"
ArrayAccess ==
    /\ ret.op = "EvaluatePropertyAccess"
    /\ call.expression.name = "arr"

\* the 1-based position a segment names: an ordinal word or a literal integer
IsOrdinalWord(segment) == \E i \in 1..Len(Ordinals) : Ordinals[i] = segment

PositionOf(segment) ==
    IF IsOrdinalWord(segment) THEN CHOOSE i \in 1..Len(Ordinals) : Ordinals[i] = segment
    ELSE NumeralValue(segment)

\* C9 as stated: "1st" yields the first element, "last" the final one, a
\* literal integer n the n-th element, and an ordinal beyond the array's
\* length is an error.
C9_OrdinalIndexing ==
    ArrayAccess =>
        LET items == eval.state["arr"].items
            segment == call.expression.segs[1]
        IN  /\ (segment = "last" /\ items # << >>) =>
                  (ret.err = "" /\ ret.val = items[Len(items)])
            /\ (IsOrdinalWord(segment) \/ IsNumeral(segment)) =>
                  IF PositionOf(segment) <= Len(items)
                  THEN ret.err = "" /\ ret.val = items[PositionOf(segment)]
                  ELSE ret.err # ""

\* what does hold: the ordinal words and "last" index the array, 1-based, and
\* a word beyond the array's length is an error
C9_OrdinalWords ==
    ArrayAccess =>
        LET items == eval.state["arr"].items
            segment == call.expression.segs[1]
        IN  /\ (segment = "last" /\ items # << >>) =>
                  (ret.err = "" /\ ret.val = items[Len(items)])
            /\ IsOrdinalWord(segment) =>
                  IF PositionOf(segment) <= Len(items)
                  THEN ret.err = "" /\ ret.val = items[PositionOf(segment)]
                  ELSE ret.err # ""

\* the literal integer "2" on an array of two elements is refused
C9_Witness ==
    /\ ArrayAccess
    /\ call.expression.segs = << "2" >>
    /\ Len(eval.state["arr"].items) >= 2
    /\ ret.err # ""

MergeCall == ret.op = "MergeDatamaps"

\* C10: for Datamaps A and B, MergeDatamaps(A, B) returns a map, distinct
\* from both, whose keys are exactly keys(A) union keys(B), holding B's value
\* for every key of B and A's value for every key only in A; the maps of A
\* and B hold after the call what they held before; when either operand is
\* not a Datamap the result is an error.
C10_MergeRightBias ==
    MergeCall =>
        IF call.left.kind = "datamap" /\ call.right.kind = "datamap"
        THEN LET mapA == call.heapBefore[call.left.ref]
                 mapB == call.heapBefore[call.right.ref]
             IN  /\ ret.err = ""
                 /\ ret.val.kind = "datamap"
                 /\ ret.val.ref \notin {call.left.ref, call.right.ref}
                 /\ LET merged == eval.heap[ret.val.ref] IN
                    /\ DOMAIN merged = (DOMAIN mapA) \cup (DOMAIN mapB)
                    /\ \A key \in DOMAIN mapB : merged[key] = mapB[key]
                    /\ \A key \in (DOMAIN mapA) \ (DOMAIN mapB) : merged[key] = mapA[key]
                 /\ eval.heap[call.left.ref] = mapA
                 /\ eval.heap[call.right.ref] = mapB
        ELSE ret.err # "" /\ eval.heap = call.heapBefore

\* A and B share a key on which they differ, and A has a key of its own
C10_Witness ==
    /\ MergeCall
    /\ call.left.kind = "datamap" /\ call.right.kind = "datamap"
    /\ LET mapA == call.heapBefore[call.left.ref]
           mapB == call.heapBefore[call.right.ref]
       IN  /\ "k" \in DOMAIN mapA /\ "k" \in DOMAIN mapB /\ mapA["k"] # mapB["k"]
           /\ "j" \in DOMAIN mapA /\ "j" \notin DOMAIN mapB
    /\ ret.err = ""
    /\ eval.heap[ret.val.ref]["k"] = call.heapBefore[call.right.ref]["k"]

\* a call that reads a variable or a property path
ReadCall == ret.op \in { "EvaluateExpression", "EvaluatePropertyAccess" }

\* a segment that is a key of a Datamap: not "length", not a position
KeySegment(segment) ==
    segment # "length" /\ segment # "last" /\ ~IsOrdinalWord(segment) /\ ~IsNumeral(segment)

\* the values the key segments segs[1..n] lead to from value, one per
\* segment passed; shorter than n + 1 when the walk cannot go on
RECURSIVE Reached(_, _, _, _)
Reached(heap, value, segs, n) ==
    IF n = 0 THEN << value >>
    ELSE LET before == Reached(heap, value, segs, n - 1) IN
         IF Len(before) < n THEN before
         ELSE LET v == before[n] IN
              IF KeySegment(segs[n]) /\ v.kind = "datamap" /\ segs[n] \in DOMAIN heap[v.ref]
              THEN Append(before, heap[v.ref][segs[n]])
              ELSE before

MaxHeap == 4   \* maps of the heap: a write that would allocate beyond is not made

\* the paths written through, after the base variable
WriteSegments == { << "k" >>, << "k", "j" >>, << "j", "k", "j" >>, << "k", "j", "k" >> }

\* the targets of a write: a variable, or a path from $a, $n or the unset $zz
WriteTargets ==
    { XVar(name) : name \in { "a", "c" } }
    \cup { XProp(name, segs) : name \in { "a", "n", "zz" }, segs \in WriteSegments }

WriteValues == { Num(7) }

\* the maps $a and $b refer to at the start
WriteMapsA == { EmptyMap, MapPut(EmptyMap, "k", Num(1)), MapPut(EmptyMap, "k", Dm(2)) }
WriteMapsB == { EmptyMap, MapPut(EmptyMap, "j", Num(1)) }

InitWrite ==
    /\ \E mapA \in WriteMapsA : \E mapB \in WriteMapsB :
          eval = NewHarloweEvaluator(
                     [v \in {"a", "b", "n"} |->
                         CASE v = "a" -> Dm(1) [] v = "b" -> Dm(2) [] OTHER -> Num(5)],
                     << mapA, mapB >>)
    /\ ps = [story |-> << >>]
    /\ call = NoCall
    /\ ret = NoRet

\* a path of n segments allocates at most n - 1 maps
RoomFor(target) ==
    Len(eval.heap) + (IF target.t = "prop" THEN Len(target.segs) - 1 ELSE 0) <= MaxHeap

\* e.SetProperty(varPath, value)
DoSetProperty ==
    /\ call = NoCall
    /\ \E varPath \in { t \in WriteTargets : t.t = "prop" } : \E value \in WriteValues :
       \E r \in { SetProperty(eval, varPath, value) } :
          /\ RoomFor(varPath)
          /\ call' = [op |-> "SetProperty", varPath |-> varPath, value |-> value,
                      before |-> eval]
          /\ ret' = [op |-> "SetProperty", err |-> r.err]
          /\ eval' = r.e
    /\ UNCHANGED ps

\* e.Put(value, target)
DoPut ==
    /\ call = NoCall
    /\ \E target \in WriteTargets : \E value \in WriteValues :
       \E r \in { Put(eval, value, target) } :
          /\ RoomFor(target)
          /\ call' = [op |-> "Put", target |-> target, value |-> value, before |-> eval]
          /\ ret' = [op |-> "Put", err |-> r.err]
          /\ eval' = r.e
    /\ UNCHANGED ps

\* e.Move(source, dest)
DoMove ==
    /\ call = NoCall
    /\ \E source \in { XVar(name) : name \in { "a", "n", "zz" } } :
       \E dest \in WriteTargets : \E r \in { Move(eval, source, dest) } :
          /\ RoomFor(dest)
          /\ call' = [op |-> "Move", source |-> source, dest |-> dest, before |-> eval]
          /\ ret' = [op |-> "Move", err |-> r.err]
          /\ eval' = r.e
    /\ UNCHANGED ps

\* the caller takes the error
ReturnWrite ==
    /\ call # NoCall
    /\ call' = NoCall
    /\ ret' = NoRet
    /\ UNCHANGED <<eval, ps>>

NextWrite == DoSetProperty \/ DoPut \/ DoMove \/ ReturnWrite

SpecWrite == InitWrite /\ [][NextWrite]_vars

(***************************************************************************)
(* Properties of the writes (under SpecWrite).                             *)
(***************************************************************************)
SetCall == ret.op = "SetProperty"

\* C12: SetProperty on a possessive path returns an error and leaves the
\* base variable absent when it is absent; returns an error when the base or
\* an existing intermediate value on the path is not a Datamap; otherwise it
\* creates an empty Datamap for every missing intermediate segment, each
\* holding only the next segment, keeps the maps that exist, and stores the
\* value under the final segment.
C12_SetProperty ==
    SetCall =>
        LET e0 == call.before
            base == call.varPath.name
            segs == call.varPath.segs
        IN  IF base \notin DOMAIN e0.state
            THEN ret.err # "" /\ base \notin DOMAIN eval.state /\ eval = e0
            ELSE IF e0.state[base].kind # "datamap"
            THEN ret.err # "" /\ eval.state = e0.state
            ELSE LET before == Reached(e0.heap, e0.state[base], segs, Len(segs) - 1) IN
                 IF before[Len(before)].kind # "datamap"
                 THEN ret.err # ""
                 ELSE LET after == Reached(eval.heap, eval.state[base], segs, Len(segs)) IN
                      /\ ret.err = ""
                      /\ eval.state = e0.state
                      /\ Len(after) = Len(segs) + 1
                      /\ after[Len(after)] = call.value
                      /\ \A i \in 1..Len(before) : after[i] = before[i]
                      /\ \A i \in (Len(before) + 1)..Len(segs) :
                            /\ after[i].kind = "datamap"
                            /\ after[i].ref > Len(e0.heap)
                            /\ DOMAIN eval.heap[after[i].ref] = { segs[i] }
                      /\ Len(eval.heap) = Len(e0.heap) + (Len(segs) - Len(before))

\* $a's j's k's j is written where $a holds no "j": two maps are created
C12_Witness ==
    /\ SetCall
    /\ call.varPath = XProp("a", << "j", "k", "j" >>)
    /\ call.before.state["a"].kind = "datamap"
    /\ "j" \notin DOMAIN call.before.heap[call.before.state["a"].ref]
    /\ ret.err = ""
    /\ Len(eval.heap) = Len(call.before.heap) + 2

MoveCall == ret.op = "Move"

\* C13: Move fails with an error and changes nothing when the source
\* variable is undeclared; otherwise the target receives the source's value
\* through Put and, only when that succeeded, the source variable holds the
\* Number 0 and is still present; when the Put fails the source, and every
\* other variable, keeps its value.  A plain target always succeeds.
C13_MoveReadPutReset ==
    MoveCall =>
        LET e0 == call.before
            source == call.source.name
            dest == call.dest
        IN  IF source \notin DOMAIN e0.state
            THEN ret.err # "" /\ eval = e0
            ELSE IF ret.err # ""
            THEN dest.t = "prop" /\ eval = e0
            ELSE /\ source \in DOMAIN eval.state
                 /\ eval.state[source] = Num(0)
                 /\ \A v \in (DOMAIN e0.state) \ { source, dest.name } :
                       v \in DOMAIN eval.state /\ eval.state[v] = e0.state[v]
                 /\ (dest.t = "var" /\ dest.name # source) =>
                       eval.state[dest.name] = e0.state[source]
                 /\ (dest.t = "prop" /\ dest.name # source) =>
                       LET after == Reached(eval.heap, eval.state[dest.name], dest.segs,
                                            Len(dest.segs))
                       IN  /\ Len(after) = Len(dest.segs) + 1
                           /\ after[Len(after)] = e0.state[source]

\* $n is moved into $c: $c holds what $n held, $n holds 0
C13_Witness ==
    /\ MoveCall
    /\ call.source = XVar("n")
    /\ call.dest = XVar("c")
    /\ call.before.state["n"] = Num(5)
    /\ ret.err = ""
    /\ eval.state["c"] = Num(5)
    /\ eval.state["n"] = Num(0)

(***************************************************************************)
(* Properties of the set literal (under SpecEval).                         *)
(***************************************************************************)
DatasetCall == ret.op = "ParseDatasetLiteral"

\* the string form of a literal element
Rendering(elem) == IF elem.t = "num" THEN ToString(elem.n) ELSE elem.s

\* the renderings of the elements, each kept where it is first seen
RECURSIVE FirstSeen(_, _)
FirstSeen(elems, n) ==
    IF n = 0 THEN << >>
    ELSE LET before == FirstSeen(elems, n - 1) IN
         IF \E i \in 1..Len(before) : before[i] = Rendering(elems[n]) THEN before
         ELSE Append(before, Rendering(elems[n]))

\* the Dataset never holds two values with the same rendering, and holds the
\* rendering of every element
C14_NoDuplicates ==
    DatasetCall =>
        /\ \A i, j \in 1..Len(ret.arr) : ret.arr[i] = ret.arr[j] => i = j
        /\ { ret.arr[i] : i \in 1..Len(ret.arr) } =
              { Rendering(call.content.elems[i]) : i \in 1..Len(call.content.elems) }

\* C14: parsing a set literal discards duplicate values, compared by rendered
\* string form, and the kept occurrences appear in first-seen source order.
C14_FirstSeenOrder ==
    DatasetCall => ret.arr = FirstSeen(call.content.elems, Len(call.content.elems))

\* (ds: 1, "a") comes back as "a" before 1
C14_Witness ==
    /\ DatasetCall
    /\ call.content = XDs(<< XNum(1), XStr("a") >>)
    /\ ret.arr = << "a", "1" >>

(***************************************************************************)
(* Properties of GetSuggestedPaths (under SpecSim).                        *)
(***************************************************************************)
SuggestCall == ret.op = "GetSuggestedPaths"

\* the outbound links of a passage; a title that is no passage has none
OutboundLinks(story, title) ==
    IF title \in DOMAIN story THEN Range(ParseLinks(story[title])) ELSE {}

\* the path begins with start and each consecutive pair is an outbound link
FollowsLinksFrom(story, start, path) ==
    /\ Len(path) >= 1
    /\ path[1] = start
    /\ \A i \in 1..(Len(path) - 1) : path[i + 1] \in OutboundLinks(story, path[i])

\* C15: GetSuggestedPaths(start, maxDepth) returns at most 10 paths; every
\* returned path begins with start and each consecutive pair in it is an
\* outbound link of the earlier passage; every returned path has reached
\* maxDepth links or ends at a passage without outbound links.
C15_SuggestedPaths ==
    SuggestCall =>
        /\ Len(ret.paths) <= 10
        /\ \A n \in 1..Len(ret.paths) :
              LET path == ret.paths[n] IN
              /\ FollowsLinksFrom(ps.story, call.startPassage, path)
              /\ \/ Len(path) - 1 = call.maxDepth
                 \/ OutboundLinks(ps.story, path[Len(path)]) = {}

\* the path is one GetSuggestedPaths collects: it has maxDepth passages (the
\* start alone when maxDepth is 0), or fewer and its last passage exists and
\* has no outbound links
Collected(story, path, maxDepth) ==
    \/ Len(path) = maxDepth
    \/ Len(path) = 1 /\ maxDepth = 0
    \/ /\ Len(path) < maxDepth
       /\ path[Len(path)] \in DOMAIN story
       /\ OutboundLinks(story, path[Len(path)]) = {}

\* the paths of len passages that begin with start and follow outbound links
RECURSIVE WalksFrom(_, _, _)
WalksFrom(story, start, len) ==
    IF len = 1 THEN { << start >> }
    ELSE UNION { { Append(path, title) : title \in OutboundLinks(story, path[Len(path)]) }
                 : path \in WalksFrom(story, start, len - 1) }

\* C15 amended: at most 10 paths are returned, each begins with start and
\* follows outbound links, and each is collected at maxDepth passages, that
\* is maxDepth - 1 links, or earlier at a passage without outbound links;
\* when fewer than 10 are returned, every such path is returned.
C15_CollectedAtPassages ==
    SuggestCall =>
        /\ Len(ret.paths) <= 10
        /\ \A n \in 1..Len(ret.paths) :
              /\ FollowsLinksFrom(ps.story, call.startPassage, ret.paths[n])
              /\ Collected(ps.story, ret.paths[n], call.maxDepth)
        /\ Len(ret.paths) < 10 =>
              \A len \in 1..MaxDepth : \A path \in WalksFrom(ps.story, call.startPassage, len) :
                 Collected(ps.story, path, call.maxDepth) => path \in Range(ret.paths)

\* from A with maxDepth 2 the path A, B is returned: one link, and B has links
C15_Witness ==
    /\ SuggestCall
    /\ call.startPassage = "A"
    /\ call.maxDepth = 2
    /\ \E n \in 1..Len(ret.paths) :
          /\ ret.paths[n] = << "A", "B" >>
          /\ OutboundLinks(ps.story, "B") # {}

\* the number of occurrences of title t in path
Occurrences(path, t) == Cardinality({ i \in 1..Len(path) : path[i] = t })

\* the visit counts a run over the titles of path leaves
VisitsOf(path) == [t \in Range(path) |-> Occurrences(path, t)]

\* C16: after any SimulatePath invocation returns, whatever ran before it on
\* the same simulator, the visit counts and the history reflect only the
\* passages that invocation visited (none when the path failed validation).
C16_ResetEveryInvocation ==
    SimulateCall =>
        LET walked == IF PathFollowsGraph(call.before.story, call.path)
                      THEN call.path ELSE << >>
        IN  /\ ps.history = walked
            /\ ps.visitedPassages = VisitsOf(walked)

\* C16 amended: after an invocation on a path that passes validation the
\* visit counts and the history are those of that path alone, whatever ran
\* before; an invocation on a path that fails validation returns before the
\* reset and leaves them as the earlier invocations left them.
C16_ResetOnValidPath ==
    SimulateCall =>
        IF PathFollowsGraph(call.before.story, call.path)
        THEN /\ ps.history = call.path
             /\ ps.visitedPassages = VisitsOf(call.path)
        ELSE /\ ps.history = call.before.history
             /\ ps.visitedPassages = call.before.visitedPassages

\* a valid path run on a simulator that holds the history of another run
C16_Witness ==
    /\ SimulateCall
    /\ PathFollowsGraph(call.before.story, call.path)
    /\ Len(call.before.history) >= 2
    /\ Len(call.path) >= 2
    /\ call.before.history # call.path
    /\ ps.history = call.path

\* C17: while step i of a valid path is processed the evaluator's current
\* passage is path[i], its history is path[1..i] in order with duplicates
\* kept, and its visit counts are the numbers of occurrences in path[1..i];
\* so a passage that stores `visits` stores the number of occurrences of its
\* own title so far, and (visited: "A") yields the occurrences of A so far.
C17_StepContext ==
    (SimulateCall /\ PathFollowsGraph(call.before.story, call.path)) =>
        /\ Len(ret.contexts) = Len(call.path)
        /\ \A i \in 1..Len(call.path) :
              LET sofar == SubSeq(call.path, 1, i)
                  changes == ret.result.Steps[i].Changes
              IN  /\ ret.contexts[i].currentPassage = call.path[i]
                  /\ ret.contexts[i].history = sofar
                  /\ ret.contexts[i].visitedPassages = VisitsOf(sofar)
                  /\ (call.path[i] = "A" /\ "v" \in DOMAIN changes) =>
                        changes["v"].Current = Num(Occurrences(sofar, "A"))
                  /\ (call.path[i] = "B" /\ "w" \in DOMAIN changes) =>
                        changes["w"].Current = Num(Occurrences(sofar, "A"))

\* the path A, B, A: the third step runs with history A, B, A and stores visits = 2
C17_Witness ==
    /\ SimulateCall
    /\ call.path = << "A", "B", "A" >>
    /\ Len(ret.contexts) = 3
    /\ ret.contexts[3].history = << "A", "B", "A" >>
    /\ ret.contexts[3].visitedPassages["A"] = 2
    /\ "v" \in DOMAIN ret.result.Steps[3].Changes
    /\ ret.result.Steps[3].Changes["v"].Current = Num(2)
    /\ ret.result.Steps[1].Changes["v"].Current = Num(1)

\* a value as a reader sees it with the maps of heap: a datamap by its entries
Shown(heap, value) ==
    IF value.kind = "datamap" THEN [kind |-> "datamap", entries |-> heap[value.ref]]
    ELSE value

\* C18: for every variable present before a step, the previous of its
\* VariableChange, as the returned result shows it, is the variable's value
\* as it was when the step started, also when the step changes a nested
\* datamap in place through a property set.
C18_SnapshotIndependent ==
    (SimulateCall /\ PathFollowsGraph(call.before.story, call.path)) =>
        \A i \in 1..Len(ret.result.Steps) :
            LET before == StateBeforeStep(ret.result.Steps, i)
                changes == ret.result.Steps[i].Changes
            IN  \A v \in DOMAIN changes \cap DOMAIN before :
                    Shown(ret.heap, changes[v].Previous)
                        = Shown(ret.contexts[i].heap, before[v])

\* what holds: the previous is the value the variable held before the step,
\* a datamap being held by reference
C18_SnapshotShallow ==
    (SimulateCall /\ PathFollowsGraph(call.before.story, call.path)) =>
        \A i \in 1..Len(ret.result.Steps) :
            LET before == StateBeforeStep(ret.result.Steps, i)
                changes == ret.result.Steps[i].Changes
            IN  \A v \in DOMAIN changes \cap DOMAIN before :
                    changes[v].Previous = before[v]

\* the path C, A, B with B setting $dm's k to 2: $dm held k = 1 when the
\* third step started, and the previous of that step shows k = 2
C18_Witness ==
    /\ SimulateCall
    /\ call.path = << "C", "A", "B" >>
    /\ Len(ret.result.Steps) = 3
    /\ "dm" \in DOMAIN ret.result.Steps[3].Changes
    /\ LET previous == ret.result.Steps[3].Changes["dm"].Previous
       IN  /\ previous.kind = "datamap"
           /\ ret.contexts[3].heap[previous.ref]["k"] = Num(1)
           /\ ret.heap[previous.ref]["k"] = Num(2)

HealthLike == { "vita", "health", "hp" }

RECURSIVE SumOfWarnings(_, _)
SumOfWarnings(steps, i) ==
    IF i > Len(steps) THEN 0 ELSE Len(steps[i].Warnings) + SumOfWarnings(steps, i + 1)

\* the value of v after the step is at or below threshold and its value
\* before the step was above it or absent
Crosses(changes, v, threshold) ==
    /\ v \in DOMAIN changes
    /\ ReadsAsNumber(changes[v].Current)
    /\ NumberRead(changes[v].Current) <= threshold
    /\ \/ ~ReadsAsNumber(changes[v].Previous)
       \/ NumberRead(changes[v].Previous) > threshold

\* the value of v after the step reads as a number at or below the low threshold
IsLow(changes, v) ==
    /\ v \in DOMAIN changes
    /\ ReadsAsNumber(changes[v].Current)
    /\ NumberRead(changes[v].Current) <= 20

\* C19: a step records a warning for a health-like variable exactly when its
\* value crosses the low threshold (20) or the zero threshold in that step;
\* no warning is recorded for another variable; totalWarnings is the sum of
\* the lengths of the steps' warning lists.
C19_WarningsOnCrossing ==
    SimulateCall =>
        /\ \A i \in 1..Len(ret.result.Steps) :
              LET step == ret.result.Steps[i] IN
              /\ \A w \in Range(step.Warnings) : w.name \in HealthLike
              /\ \A v \in HealthLike :
                    (\E w \in Range(step.Warnings) : w.name = v)
                        <=> (Crosses(step.Changes, v, 20) \/ Crosses(step.Changes, v, 0))
        /\ ret.result.TotalWarnings = SumOfWarnings(ret.result.Steps, 1)

\* C19 amended: a step records one warning for every health-like variable
\* whose value after the step reads as a number at or below the low threshold
\* (20), whatever its value before the step: the zero warning when the value
\* is 0 or less, else the low warning; no warning is recorded for another
\* variable; totalWarnings is the sum of the lengths of the warning lists.
C19_WarningsWhileLow ==
    SimulateCall =>
        /\ \A i \in 1..Len(ret.result.Steps) :
              LET step == ret.result.Steps[i]
                  low == { v \in HealthLike : IsLow(step.Changes, v) }
              IN  /\ Len(step.Warnings) = Cardinality(low)
                  /\ Range(step.Warnings) =
                        { [k |-> IF NumberRead(step.Changes[v].Current) <= 0
                                 THEN "zero" ELSE "critical",
                           name |-> v,
                           val |-> NumberRead(step.Changes[v].Current)] : v \in low }
        /\ ret.result.TotalWarnings = SumOfWarnings(ret.result.Steps, 1)

\* hp is set to 10 in the first step and left alone in the second: both
\* steps record the low warning
C19_Witness ==
    /\ SimulateCall
    /\ Len(ret.result.Steps) >= 2
    /\ "hp" \in DOMAIN ret.result.Steps[2].Changes
    /\ ret.result.Steps[2].Changes["hp"].Previous = Num(10)
    /\ ret.result.Steps[2].Changes["hp"].Current = Num(10)
    /\ ret.result.Steps[1].Warnings = << [k |-> "critical", name |-> "hp", val |-> 10] >>
    /\ ret.result.Steps[2].Warnings = << [k |-> "critical", name |-> "hp", val |-> 10] >>
    /\ ret.result.TotalWarnings = 2

\* EvaluateExpression was called on a sum of two operands
PlusCall == ret.op = "EvaluateExpression" /\ call.expression.t = "bin" /\ call.expression.op = "+"

\* the evaluator as the call found it
EvaluatorBefore == WithHeap(eval, call.heapBefore)

\* C20: EvaluateExpression on L + R, for operands of every supported form,
\* dispatches on the type of L's value: a Datamap gives the right-biased
\* union with R's value, an Array the concatenation, a Number the sum, a
\* String the concatenation of the two strings, any other type an error.
C20_PlusDispatch ==
    PlusCall =>
        LET o == Operands(EvaluatorBefore, call.expression)
            left == o.l.val
            right == o.r.val
        IN  CASE left.kind = "datamap" ->
                    LET m == MergeDatamaps(o.r.heap, left, right)
                    IN  ret.val = m.val /\ ret.err = m.err /\ eval.heap = m.heap
              [] left.kind = "array" ->
                    LET c == concatenateArrays(left, right)
                    IN  ret.val = c.val /\ ret.err = c.err
              [] left.kind = "number" ->
                    right.kind = "number" => (ret.val = Num(left.n + right.n) /\ ret.err = "")
              [] left.kind = "string" ->
                    right.kind = "string" => (ret.val = Str(left.s \o right.s) /\ ret.err = "")
              [] OTHER -> ret.err # ""

\* what holds: the dispatch is reached when the text of L + R neither starts
\* with "$" or a literal macro nor starts and ends with a quote
C20_PlusDispatchReached ==
    (PlusCall /\ Lead(call.expression).t \notin { "var", "prop", "arr", "dm", "ds" }
              /\ ~IsQuoted(call.expression))
        => C20_PlusDispatch

\* $a + $b on two datamaps returns the number 0 and no error
C20_Witness ==
    /\ PlusCall
    /\ call.expression = XBin("+", XVar("a"), XVar("b"))
    /\ eval.state["a"].kind = "datamap"
    /\ eval.state["b"].kind = "datamap"
    /\ ret.val = Num(0)
    /\ ret.err = ""

\* the value the segments segs[i..] lead to from value, each segment resolved
\* against the value the one before it produced: "length" and the position
\* words on an Array, a key on a Datamap; ok is FALSE when a segment cannot
\* be resolved
RECURSIVE Resolve(_, _, _, _)
Resolve(heap, value, segs, i) ==
    IF i > Len(segs) THEN [ok |-> TRUE, val |-> value]
    ELSE IF segs[i] = "length"
         THEN IF value.kind = "array"
              THEN Resolve(heap, Num(Len(value.items)), segs, i + 1)
              ELSE [ok |-> FALSE, val |-> NilValue]
    ELSE IF segs[i] = "last"
         THEN IF value.kind = "array" /\ value.items # << >>
              THEN Resolve(heap, value.items[Len(value.items)], segs, i + 1)
              ELSE [ok |-> FALSE, val |-> NilValue]
    ELSE IF IsOrdinalWord(segs[i])
         THEN IF value.kind = "array" /\ PositionOf(segs[i]) <= Len(value.items)
              THEN Resolve(heap, value.items[PositionOf(segs[i])], segs, i + 1)
              ELSE [ok |-> FALSE, val |-> NilValue]
    ELSE IF value.kind = "datamap" /\ segs[i] \in DOMAIN heap[value.ref]
         THEN Resolve(heap, heap[value.ref][segs[i]], segs, i + 1)
         ELSE [ok |-> FALSE, val |-> NilValue]

\* a property path on a variable of the state, without literal integers
PathCall ==
    /\ ReadCall
    /\ call.expression.t = "prop"
    /\ call.expression.name \in DOMAIN eval.state
    /\ \A i \in 1..Len(call.expression.segs) : ~IsNumeral(call.expression.segs[i])

\* C21: a property path $X's s1 ... 's sn yields the value reached after all
\* n segments, each resolved against the value the segment before produced,
\* also the segments that follow a position word; it is an error when a
\* segment cannot be resolved.
C21_PathChaining ==
    PathCall =>
        LET r == Resolve(call.heapBefore, eval.state[call.expression.name],
                         call.expression.segs, 1)
        IN  IF r.ok THEN ret.err = "" /\ ret.val = r.val ELSE ret.err # ""

\* what holds: the chaining through keys, a position word or "length" being
\* the last segment of the path
C21_ChainingThroughKeys ==
    (PathCall /\ \A i \in 1..(Len(call.expression.segs) - 1) :
                    KeySegment(call.expression.segs[i]))
        => C21_PathChaining

\* $party's 1st's k on an array of one datamap that holds k returns the
\* datamap, not its k entry
C21_Witness ==
    /\ ret.op = "EvaluatePropertyAccess"
    /\ call.expression = XProp("party", << "1st", "k" >>)
    /\ "k" \in DOMAIN call.heapBefore[2]
    /\ ret.err = ""
    /\ ret.val = Dm(2)
    /\ ret.val # call.heapBefore[2]["k"]

(***************************************************************************)
(* The two EvaluateCondition entry points, called on an evaluator whose    *)
(* state holds $x (a value of any kind) and $y.                            *)
(***************************************************************************)
\* the bare-value conditions: $x, $y, the unset $zz, (history:)
BareConds == { XVar("x"), XVar("y"), XVar("zz"), [t |-> "history"] }

\* X contains Y and X does not contain Y
ContainsConds ==
    { XBin(op, l, r) :
        op \in { "contains", "does not contain" },
        l \in { XVar("x"), XArr(<< XNum(2) >>), XNum(1), XProp("x", << "k" >>) },
        r \in { XNum(2), XStr("a"), XVar("y"), XProp("x", << "k" >>) } }

\* the operands of "and" and "or": $x's k is an error unless $x is a datamap
\* holding k, and the datamap literal allocates a map when it is evaluated
LogicOperands ==
    { XVar("x"), XVar("y"), XNot(XVar("x")), XProp("x", << "k" >>),
      XDm(<< XStr("k"), XNum(1) >>) }

\* the text "o1 op o2 op ... on"
RECURSIVE Joined(_, _, _)
Joined(op, operands, n) ==
    IF n = 1 THEN operands[1] ELSE XBin(op, Joined(op, operands, n - 1), operands[n])

LogicConds ==
    { Joined(op, operands, Len(operands)) :
        op \in { "and", "or" },
        operands \in UNION { [1..n -> LogicOperands] : n \in 2..MaxOperands } }

InitCond ==
    /\ \E st \in ChainStates : eval = NewHarloweEvaluator(st, ChainHeap)
    /\ ps = [story |-> << >>]
    /\ call = NoCall
    /\ ret = NoRet

\* e.EvaluateCondition(condition), the Evaluator capability
DoEvaluateCondition ==
    /\ call = NoCall
    /\ \E condition \in BareConds \cup ContainsConds :
       \E r \in { EvaluateCondition(eval, condition) } :
          /\ call' = [op |-> "EvaluateCondition", condition |-> condition, before |-> eval]
          /\ ret' = [op |-> "EvaluateCondition", val |-> r.val, err |-> r.err]
          /\ eval' = WithHeap(eval, r.heap)
    /\ UNCHANGED ps

\* ch.EvaluateCondition(condition), the chain processor's
DoHandlerEvaluateCondition ==
    /\ call = NoCall
    /\ \E condition \in BareConds \cup ContainsConds \cup LogicConds :
       \E r \in { ch_EvaluateCondition(eval, condition) } :
          /\ call' = [op |-> "ch.EvaluateCondition", condition |-> condition, before |-> eval]
          /\ ret' = [op |-> "ch.EvaluateCondition", val |-> r.val, err |-> r.err]
          /\ eval' = WithHeap(eval, r.heap)
    /\ UNCHANGED ps

\* the caller takes the result and drops it: the maps the call allocated are
\* reclaimed
ReturnCond ==
    /\ call # NoCall
    /\ eval' = WithHeap(eval, call.before.heap)
    /\ call' = NoCall
    /\ ret' = NoRet
    /\ UNCHANGED ps

NextCond == DoEvaluateCondition \/ DoHandlerEvaluateCondition \/ ReturnCond

SpecCond == InitCond /\ [][NextCond]_vars

CondCall == ret.op \in { "EvaluateCondition", "ch.EvaluateCondition" }

\* the condition is a bare variable that the state holds
BareValueCond ==
    /\ CondCall
    /\ call.condition.t = "var"
    /\ call.condition.name \in DOMAIN call.before.state

\* C22: on a bare-value condition the two entry points return the same
\* Boolean, the truthiness of the value by the table of the spec, and false
\* for a value of any other kind, a Dataset included.
C22_EntryPointsAgree ==
    BareValueCond =>
        LET value == call.before.state[call.condition.name]
            e == EvaluateCondition(call.before, call.condition)
            ch == ch_EvaluateCondition(call.before, call.condition)
        IN  /\ ret.err = ""
            /\ e.val = ch.val
            /\ ret.val = IF value.kind \in { "boolean", "number", "string", "array", "datamap" }
                         THEN Truthy(call.before.heap, value)
                         ELSE FALSE

\* what holds: the two agree on the five kinds of the table, and the chain
\* processor's returns false for every other kind
C22_AgreeOnTable ==
    BareValueCond =>
        LET value == call.before.state[call.condition.name] IN
        /\ ret.err = ""
        /\ value.kind \in { "boolean", "number", "string", "array", "datamap" } =>
              ret.val = Truthy(call.before.heap, value)
        /\ (value.kind \notin { "boolean", "number", "string", "array", "datamap" }
            /\ ret.op = "ch.EvaluateCondition") => ret.val = FALSE

\* the Evaluator's EvaluateCondition on $x holding a Dataset returns true
C22_Witness ==
    /\ ret.op = "EvaluateCondition"
    /\ call.condition = XVar("x")
    /\ "x" \in DOMAIN call.before.state
    /\ call.before.state["x"].kind = "dataset"
    /\ ret.err = ""
    /\ ret.val = TRUE
    /\ ch_EvaluateCondition(call.before, call.condition).val = FALSE

\* the chain processor's EvaluateCondition was called on X does not contain Y
NotContainCall ==
    /\ ret.op = "ch.EvaluateCondition"
    /\ call.condition.t = "bin"
    /\ call.condition.op = "does not contain"

\* C23: X does not contain Y, for operands of every type: the evaluation of
\* X contains Y either returns an error, which is the condition's error, or
\* a Boolean, whose negation is the condition's result; the type assertion
\* on the sub-result never fails.  For an Array X the result is that no
\* element of X equals Y.
C23_DoesNotContainSafe ==
    NotContainCall =>
        LET x == EvaluateExpression(call.before, call.condition.l)
            y == EvaluateExpression(call.before, call.condition.r)
            k == ch_EvaluateCondition(call.before,
                                      XBin("contains", call.condition.l, call.condition.r))
        IN  /\ ret.err # Panic
            /\ IF k.err # "" THEN ret.err = k.err /\ ret.val = FALSE
               ELSE ret.err = "" /\ ret.val = ~k.val
            /\ (x.err = "" /\ y.err = "" /\ x.val.kind = "array") =>
                  /\ ret.err = ""
                  /\ ret.val = ~(\E i \in 1..Len(x.val.items) :
                                    areEqual(call.before.heap, x.val.items[i], y.val))
            /\ (x.err # "" \/ y.err # "" \/ x.val.kind # "array") => ret.err # ""

\* $x does not contain 2 on the array (a: 1) is true
C23_Witness ==
    /\ NotContainCall
    /\ call.condition = XBin("does not contain", XVar("x"), XNum(2))
    /\ "x" \in DOMAIN call.before.state
    /\ call.before.state["x"] = Arr(<< Num(1) >>)
    /\ ret.err = ""
    /\ ret.val = TRUE

\* the chain processor's EvaluateCondition was called on o1 and o2 ..., or
\* on o1 or o2 ...
LogicCall ==
    /\ ret.op = "ch.EvaluateCondition"
    /\ call.condition.t = "bin"
    /\ call.condition.op \in { "and", "or" }

\* the operands o1, ..., on of the text
RECURSIVE OperandsOf(_)
OperandsOf(c) ==
    IF c.t = "bin" /\ c.op \in { "and", "or" } THEN OperandsOf(c.l) \o << c.r >> ELSE << c >>

\* the outcome of an operand ends the evaluation: an error, a false operand
\* of "and", a true operand of "or"
Decides(op, r) == r.err # "" \/ (op = "and" /\ ~r.val) \/ (op = "or" /\ r.val)

\* C24: the operands of A and B and ..., and of A or B or ..., are evaluated
\* left to right up to the first one that is false (and) or true (or) or
\* fails: the result is decided there, the error of a reached operand is the
\* condition's error, and the operands after that point are not evaluated
\* (their errors do not surface, their datamap literals allocate nothing).
\* A text that begins with "not " is the negation of the chain after it.
C24_ShortCircuit ==
    LogicCall =>
        LET op == call.condition.op
            negated == Lead(call.condition).t = "not"
            operands == OperandsOf(IF negated THEN StripNot(call.condition)
                                   ELSE call.condition)
            alone == [i \in 1..Len(operands) |-> ch_EvaluateCondition(call.before, operands[i])]
            stops == { i \in 1..Len(operands) : Decides(op, alone[i]) }
            last == IF stops = {} THEN Len(operands)
                    ELSE CHOOSE i \in stops : \A j \in stops : i <= j
            decided == IF stops = {} THEN op = "and" ELSE op = "or"
        IN  /\ IF stops # {} /\ alone[last].err # ""
               THEN ret.err = alone[last].err /\ ret.val = FALSE
               ELSE ret.err = "" /\ ret.val = (decided # negated)
            /\ Len(eval.heap) - Len(call.before.heap)
                  = Cardinality({ i \in 1..last : operands[i].t = "dm" })

\* $y and $x and $x's k with $x false: the third operand, an error on its
\* own, is not reached
C24_Witness ==
    /\ LogicCall
    /\ call.condition = XBin("and", XBin("and", XVar("y"), XVar("x")), XProp("x", << "k" >>))
    /\ call.before.state = MapPut(MapPut(EmptyMap, "x", Bool(FALSE)), "y", Num(2))
    /\ ch_EvaluateCondition(call.before, XProp("x", << "k" >>)).err # ""
    /\ ret.err = ""
    /\ ret.val = FALSE

(***************************************************************************)
(* Two SimulatePath runs on one PathSimulator.  Each run has its own       *)
(* locals (path, position, currentState, result); the simulator's          *)
(* visitedPassages and history are fields of the shared object.  A run     *)
(* takes one step at a time: the validation, the reset, a pass of the      *)
(* loop, the return.                                                       *)
(***************************************************************************)
RunIds == { 1, 2 }

RunPaths == UNION { [1..n -> PathTitles] : n \in 0..MaxRunPath }

\* the locals of a run that has not begun
NewRun(path) ==
    [path |-> path, pc |-> "validate", i |-> 1,
     locals |-> Run(NoVisits, EmptyMap, << >>, << >>, 0, 0, << >>),
     result |-> NilValue]

InitRuns ==
    /\ \E story \in Stories : ps = NewPathSimulator(story)
    /\ eval = NewHarloweEvaluator(EmptyMap, << >>)
    /\ call = NoCall
    /\ ret = NoRet

\* two callers call ps.SimulatePath, each with its path
StartRuns ==
    /\ call = NoCall
    /\ \E path1 \in RunPaths : \E path2 \in RunPaths :
          call' = [op |-> "SimulatePath",
                   runs |-> [r \in RunIds |-> NewRun(IF r = 1 THEN path1 ELSE path2)]]
    /\ UNCHANGED <<eval, ps, ret>>

\* validationErrors := ps.ValidatePath(path), and the return when there are errors
RunValidate(r) ==
    /\ call # NoCall
    /\ call.runs[r].pc = "validate"
    /\ \E validationErrors \in { ValidatePath(ps, call.runs[r].path) } :
          call' = [call EXCEPT !.runs[r] =
                     IF Len(validationErrors) > 0
                     THEN [@ EXCEPT !.pc = "done",
                                    !.result = SimulationResult(FALSE, call.runs[r].path,
                                                                << >>, EmptyMap,
                                                                validationErrors, 0)]
                     ELSE [@ EXCEPT !.pc = "reset"]]
    /\ UNCHANGED <<eval, ps, ret>>

\* ps.visitedPassages = make(map[string]int); ps.history = []string{}
RunReset(r) ==
    /\ call # NoCall
    /\ call.runs[r].pc = "reset"
    /\ ps' = [ps EXCEPT !.visitedPassages = NoVisits, !.history = << >>]
    /\ call' = [call EXCEPT !.runs[r].pc = "loop"]
    /\ UNCHANGED <<eval, ret>>

\* one pass of the loop, on the simulator's fields as they are now
RunStep(r) ==
    /\ call # NoCall
    /\ call.runs[r].pc = "loop"
    /\ call.runs[r].i <= Len(call.runs[r].path)
    /\ \E next \in { SimulateStep(call.runs[r].path, call.runs[r].i,
                                  [call.runs[r].locals EXCEPT !.sim = ps]) } :
          /\ ps' = next.sim
          /\ call' = [call EXCEPT !.runs[r].locals = [next EXCEPT !.sim = NoVisits],
                                  !.runs[r].i = @ + 1]
    /\ UNCHANGED <<eval, ret>>

\* result.FinalState = currentState; return result
RunFinish(r) ==
    /\ call # NoCall
    /\ call.runs[r].pc = "loop"
    /\ call.runs[r].i > Len(call.runs[r].path)
    /\ call' = [call EXCEPT !.runs[r] =
                  [@ EXCEPT !.pc = "done",
                            !.result = SimulationResult(TRUE, call.runs[r].path,
                                                        call.runs[r].locals.steps,
                                                        call.runs[r].locals.currentState,
                                                        << >>,
                                                        call.runs[r].locals.totalWarnings)]]
    /\ UNCHANGED <<eval, ps, ret>>

\* both runs are between their reset and their return, where each writes the
\* simulator's map and slice without a lock: the writes can meet, and the Go
\* runtime then stops the program (fatal error: concurrent map writes)
RaceFault ==
    /\ call # NoCall
    /\ \A r \in RunIds : call.runs[r].pc \in { "reset", "loop" }
    /\ call' = [call EXCEPT !.runs = [r \in RunIds |-> [@[r] EXCEPT !.pc = "crashed"]]]
    /\ UNCHANGED <<eval, ps, ret>>

NextRuns ==
    \/ StartRuns
    \/ \E r \in RunIds : RunValidate(r)
    \/ \E r \in RunIds : RunReset(r)
    \/ \E r \in RunIds : RunStep(r)
    \/ \E r \in RunIds : RunFinish(r)
    \/ RaceFault

SpecRuns == InitRuns /\ [][NextRuns]_vars

\* both runs have returned
RunsDone == call # NoCall /\ call.op = "SimulatePath" /\ "runs" \in DOMAIN call
            /\ \A r \in RunIds : call.runs[r].pc = "done"

\* C25: two runs interleaved on one PathSimulator each return the result
\* the run returns when it runs alone: neither sees nor changes the other's
\* variable state, visit counts, history or current passage.
C25_RunIsolation ==
    /\ call # NoCall => \A r \in RunIds : call.runs[r].pc # "crashed"
    /\ RunsDone =>
          \A r \in RunIds :
              call.runs[r].result
                  = SimulatePath(NewPathSimulator(ps.story), call.runs[r].path).result

\* what holds: the variable state of a run is its own; a run whose passages
\* read no visit count returns the steps it returns alone
C25_VariableStateIsolated ==
    RunsDone =>
        \A r \in RunIds :
            LET alone == SimulatePath(NewPathSimulator(ps.story), call.runs[r].path).result
                mine == call.runs[r].result
            IN  /\ mine.Success = alone.Success
                /\ mine.Errors = alone.Errors
                /\ Len(mine.Steps) = Len(alone.Steps)
                /\ \A i \in 1..Len(mine.Steps) :
                      \A v \in DOMAIN alone.Steps[i].Changes \ { "v", "w" } :
                          /\ v \in DOMAIN mine.Steps[i].Changes
                          /\ mine.Steps[i].Changes[v] = alone.Steps[i].Changes[v]

\* two runs of the path A on a passage that stores `visits`: the second run
\* to take its step stores 2, where a run alone stores 1
C25_Witness ==
    /\ RunsDone
    /\ \A r \in RunIds : call.runs[r].path = << "A" >>
    /\ \E r \in RunIds :
          /\ Len(call.runs[r].result.Steps) = 1
          /\ "v" \in DOMAIN call.runs[r].result.Steps[1].Changes
          /\ call.runs[r].result.Steps[1].Changes["v"].Current = Num(2)

(***************************************************************************)
(* The format registry (package formats): a map from lower-cased names to  *)
(* factories, guarded by one sync.RWMutex.  Goroutines call the four       *)
(* functions concurrently; each call is a wait for the lock, the body and  *)
(* the deferred release.  In this specification eval holds the registry,   *)
(* ps the lock, call the goroutines and ret the record of what completed.  *)
(***************************************************************************)
MaxCalls == 3

Goroutines == {1, 2, 3}

FormatNames == { "harlowe", "Harlowe", "HARLOWE", "sugarcube" }

Factories == { "f1", "f2" }

\* strings.ToLower on the names in use
ToLower_identity(name) == name

ToLower(name) ==
    CASE name = "Harlowe" -> "harlowe"
      [] name = "HARLOWE" -> "harlowe"
      [] OTHER -> name

RegistryOps == { "RegisterFormat", "GetRegisteredFormat", "IsFormatRegistered", "GetAvailableFormats" }

IdleGoroutine == [pc |-> "idle", op |-> "none", name |-> "", factory |-> "",
                  completedAtLock |-> {}, result |-> NilValue]

InitRegistry ==
    /\ eval = << >>
    /\ ps = [writer |-> 0, readers |-> {}]
    /\ call = [g \in Goroutines |-> IdleGoroutine]
    /\ ret = [completed |-> {}, calls |-> 0]

\* A goroutine enters one of the four functions and waits for the lock.
CallRegistry(g) ==
    /\ call[g].pc = "idle"
    /\ ret.calls < MaxCalls
    /\ \E op \in RegistryOps, name \in FormatNames, factory \in Factories :
          /\ op = "GetAvailableFormats" => name = "harlowe"
          /\ op # "RegisterFormat" => factory = "f1"
          /\ call' = [call EXCEPT ![g] = [IdleGoroutine EXCEPT !.pc = "waiting", !.op = op,
                          !.name = IF op = "GetAvailableFormats" THEN "" ELSE name,
                          !.factory = IF op = "RegisterFormat" THEN factory ELSE ""]]
    /\ ret' = [ret EXCEPT !.calls = @ + 1]
    /\ UNCHANGED << eval, ps >>

\* registryLock.Lock(): granted when nobody holds the lock.
Lock(g) ==
    /\ call[g].pc = "waiting"
    /\ call[g].op = "RegisterFormat"
    /\ ps.writer = 0
    /\ ps.readers = {}
    /\ ps' = [ps EXCEPT !.writer = g]
    /\ call' = [call EXCEPT ![g].pc = "locked", ![g].completedAtLock = ret.completed]
    /\ UNCHANGED << eval, ret >>

\* registryLock.RLock(): granted when no writer holds the lock.
RLock(g) ==
    /\ call[g].pc = "waiting"
    /\ call[g].op # "RegisterFormat"
    /\ ps.writer = 0
    /\ ps' = [ps EXCEPT !.readers = @ \cup {g}]
    /\ call' = [call EXCEPT ![g].pc = "locked", ![g].completedAtLock = ret.completed]
    /\ UNCHANGED << eval, ret >>

RegisterFormat(g) ==
    /\ call[g].pc = "locked"
    /\ call[g].op = "RegisterFormat"
    /\ eval' = MapPut(eval, ToLower(call[g].name), call[g].factory)
    /\ call' = [call EXCEPT ![g].pc = "unlock"]
    /\ UNCHANGED << ps, ret >>

GetRegisteredFormat(g) ==
    /\ call[g].pc = "locked"
    /\ call[g].op = "GetRegisteredFormat"
    /\ call' = [call EXCEPT ![g].pc = "unlock",
                            ![g].result = IF ToLower(call[g].name) \in DOMAIN eval
                                          THEN [kind |-> "format", factory |-> eval[ToLower(call[g].name)]]
                                          ELSE NilValue]
    /\ UNCHANGED << eval, ps, ret >>

IsFormatRegistered(g) ==
    /\ call[g].pc = "locked"
    /\ call[g].op = "IsFormatRegistered"
    /\ call' = [call EXCEPT ![g].pc = "unlock",
                            ![g].result = Bool(ToLower(call[g].name) \in DOMAIN eval)]
    /\ UNCHANGED << eval, ps, ret >>

GetAvailableFormats(g) ==
    /\ call[g].pc = "locked"
    /\ call[g].op = "GetAvailableFormats"
    /\ call' = [call EXCEPT ![g].pc = "unlock",
                            ![g].result = [kind |-> "names", items |-> DOMAIN eval]]
    /\ UNCHANGED << eval, ps, ret >>

\* the deferred registryLock.Unlock(): the registration has completed
Unlock(g) ==
    /\ call[g].pc = "unlock"
    /\ call[g].op = "RegisterFormat"
    /\ ps' = [ps EXCEPT !.writer = 0]
    /\ ret' = [ret EXCEPT !.completed = @ \cup { call[g].name }]
    /\ call' = [call EXCEPT ![g] = IdleGoroutine]
    /\ UNCHANGED eval

\* the deferred registryLock.RUnlock()
RUnlock(g) ==
    /\ call[g].pc = "unlock"
    /\ call[g].op # "RegisterFormat"
    /\ ps' = [ps EXCEPT !.readers = @ \ {g}]
    /\ call' = [call EXCEPT ![g] = IdleGoroutine]
    /\ UNCHANGED << eval, ret >>

NextRegistry ==
    \/ \E g \in Goroutines : CallRegistry(g)
    \/ \E g \in Goroutines : Lock(g)
    \/ \E g \in Goroutines : RLock(g)
    \/ \E g \in Goroutines : RegisterFormat(g)
    \/ \E g \in Goroutines : GetRegisteredFormat(g)
    \/ \E g \in Goroutines : IsFormatRegistered(g)
    \/ \E g \in Goroutines : GetAvailableFormats(g)
    \/ \E g \in Goroutines : Unlock(g)
    \/ \E g \in Goroutines : RUnlock(g)

SpecRegistry == InitRegistry /\ [][NextRegistry]_vars

\* the goroutine is between taking the lock and releasing it
InsideLock(g) == call[g].pc \in { "locked", "unlock" }

\* the goroutine has run the body of a lookup by name and not yet released
LookedUp(g) ==
    /\ call[g].pc = "unlock"
    /\ call[g].op \in { "GetRegisteredFormat", "IsFormatRegistered" }

\* a registration of the name, in any spelling, had completed when g took the lock
SameName(a, b) == a = b \/ { a, b } \subseteq { "harlowe", "Harlowe", "HARLOWE" }

RegisteredBefore(g) == \E done \in call[g].completedAtLock : SameName(done, call[g].name)

Found(g) ==
    IF call[g].op = "GetRegisteredFormat" THEN call[g].result # NilValue
    ELSE call[g].result = Bool(TRUE)

\* C26: under every interleaving of the four registry functions a
\* registration is alone inside the lock (no lookup and no other
\* registration is inside it at the same time), and a lookup by name finds a
\* format exactly when a registration of that name, in any letter case, had
\* completed before the lookup took the lock; GetRegisteredFormat then
\* returns a format and otherwise nil.
C26_RegistryLocking ==
    /\ \A g \in Goroutines :
          (InsideLock(g) /\ call[g].op = "RegisterFormat")
              => \A other \in Goroutines \ {g} : ~InsideLock(other)
    /\ \A g \in Goroutines : LookedUp(g) => (Found(g) <=> RegisteredBefore(g))
    /\ \A g \in Goroutines :
          (call[g].pc = "unlock" /\ call[g].op = "GetAvailableFormats")
              => call[g].result.items =
                     { key \in { "harlowe", "sugarcube" } :
                           \E done \in call[g].completedAtLock : SameName(key, done) }

\* two lookups are inside the lock together, and one of them has found a
\* format that was registered under another spelling of its name
C26_Witness ==
    \E g \in Goroutines, other \in Goroutines :
        /\ g # other
        /\ InsideLock(other)
        /\ call[other].op # "RegisterFormat"
        /\ LookedUp(g)
        /\ call[g].op = "GetRegisteredFormat"
        /\ call[g].result # NilValue
        /\ call[g].name \notin call[g].completedAtLock

(***************************************************************************)
(* Macro application within a passage (under SpecSim).                     *)
(***************************************************************************)
\* every (put:) macro from the i-th on applied in text order: the value
\* through ParseValue (its text when that fails), then Put, errors dropped
RECURSIVE PutsApplied(_, _, _)
PutsApplied(macros, i, e) ==
    IF i > Len(macros) THEN e
    ELSE LET r == ParseValue(macros[i].value, e)
             value == IF r.err # "" THEN Str(TextOf(macros[i].value)) ELSE r.val
         IN  PutsApplied(macros, i + 1, Put(WithHeap(e, r.heap), value, macros[i].target).e)

\* every (move:) macro from the i-th on applied in text order, errors dropped
RECURSIVE MovesApplied(_, _, _)
MovesApplied(macros, i, e) ==
    IF i > Len(macros) THEN e
    ELSE MovesApplied(macros, i + 1, Move(e, macros[i].source, macros[i].dest).e)

\* every set, then every put, then every move
AllApplied(content, e) ==
    MovesApplied(MacrosOf(content, "move"), 1,
        PutsApplied(MacrosOf(content, "put"), 1,
            parseSetMacro(MacrosOf(content, "set"), 1, e)))

\* the evaluator step i of the returned result started from
EvaluatorOfStep(i) ==
    [NewHarloweEvaluator(StateBeforeStep(ret.result.Steps, i), ret.contexts[i].heap) EXCEPT
        !.visitedPassages = ret.contexts[i].visitedPassages,
        !.history = ret.contexts[i].history,
        !.currentPassage = ret.contexts[i].currentPassage]

\* the variable state step i of the returned result ended with
StateAfterStep(i) ==
    [v \in DOMAIN ret.result.Steps[i].Changes |-> ret.result.Steps[i].Changes[v].Current]

HasMacro(content, m) == MacrosOf(content, m) # << >>

\* C27: the state a passage leaves is the state after every (set:) macro of
\* its content in text order, then every (put:) macro in text order, then
\* every (move:) macro in text order, a failing assignment or macro being
\* skipped without stopping the later ones.
C27_MacroOrder ==
    (SimulateCall /\ ret.result.Success) =>
        \A i \in 1..Len(ret.result.Steps) :
            StateAfterStep(i) =
                AllApplied(call.before.story[call.path[i]], EvaluatorOfStep(i)).state

\* what the code does: the (set:) macros are applied in text order, failing
\* assignments skipped; the (put:) and (move:) macros leave the state as it is
C27_SetsApplied ==
    (SimulateCall /\ ret.result.Success) =>
        \A i \in 1..Len(ret.result.Steps) :
            StateAfterStep(i) =
                parseSetMacro(MacrosOf(call.before.story[call.path[i]], "set"), 1,
                              EvaluatorOfStep(i)).state

\* a passage with (set: $hp to 25) and (move: $hp into $old) has been
\* processed: hp still holds 25 and old does not exist
C27_Witness ==
    /\ SimulateCall
    /\ ret.result.Success
    /\ Len(ret.result.Steps) >= 1
    /\ HasMacro(call.before.story[call.path[1]], "move")
    /\ "hp" \in DOMAIN StateAfterStep(1)
    /\ StateAfterStep(1)["hp"] = Num(25)
    /\ "old" \notin DOMAIN StateAfterStep(1)

(***************************************************************************)
(* Failure of SetProperty (under SpecWrite).                               *)
(***************************************************************************)
\* the causes SetProperty fails for: the base variable is absent, or it is
\* no datamap, or a value reached before the last segment is no datamap
FailureCause(e0, varPath) ==
    \/ varPath.name \notin DOMAIN e0.state
    \/ e0.state[varPath.name].kind # "datamap"
    \/ LET before == Reached(e0.heap, e0.state[varPath.name], varPath.segs,
                             Len(varPath.segs) - 1)
       IN  before[Len(before)].kind # "datamap"

\* C28: when SetProperty returns an error the evaluator is exactly what it
\* was before the call: the same variables with the same values, and the
\* same maps with the same contents, none created; and it returns an error
\* exactly when the base variable is absent or no datamap or a value reached
\* before the last segment is no datamap.
C28_AtomicOnFailure ==
    SetCall =>
        /\ ret.err # "" => (eval.state = call.before.state /\ eval.heap = call.before.heap)
        /\ ret.err # "" <=> FailureCause(call.before, call.varPath)

\* $a's k's j's ... fails on the value under j, reached through the map
\* under k that exists
C28_Witness ==
    /\ SetCall
    /\ ret.err # ""
    /\ call.varPath.name = "a"
    /\ Len(call.varPath.segs) = 3
    /\ LET before == Reached(call.before.heap, call.before.state["a"], call.varPath.segs, 2)
       IN  /\ Len(before) = 3
           /\ before[2].kind = "datamap"
           /\ before[3].kind # "datamap"

(***************************************************************************)
(* Specification SpecRead: the four evaluation entry points called on one  *)
(* evaluator that holds variables, maps, visit counts, a history and a     *)
(* current passage.  What a call allocates is kept until the caller drops  *)
(* the result.                                                             *)
(***************************************************************************)
\* the variables next to $x and $y: a datamap and an array
ReadState(st) == MapPut(MapPut(st, "a", Dm(2)), "arr", Arr(<< Num(1) >>))

InitRead ==
    /\ \E st \in ChainStates :
          eval = [NewHarloweEvaluator(ReadState(st), ChainHeap) EXCEPT
                     !.visitedPassages = MapPut(NoVisits, "A", 1),
                     !.history = << "A" >>,
                     !.currentPassage = "A"]
    /\ ps = [story |-> << >>]
    /\ call = NoCall
    /\ ret = NoRet

\* e.EvaluateExpression(expression)
ReadExpression ==
    /\ call = NoCall
    /\ \E expression \in Expressions : \E r \in { EvaluateExpression(eval, expression) } :
          /\ call' = [op |-> "EvaluateExpression", input |-> expression, before |-> eval]
          /\ ret' = [op |-> "EvaluateExpression", val |-> r.val, err |-> r.err]
          /\ eval' = WithHeap(eval, r.heap)
    /\ UNCHANGED ps

\* e.EvaluateCondition(condition)
ReadCondition ==
    /\ call = NoCall
    /\ \E condition \in BareConds \cup ContainsConds :
       \E r \in { EvaluateCondition(eval, condition) } :
          /\ call' = [op |-> "EvaluateCondition", input |-> condition, before |-> eval]
          /\ ret' = [op |-> "EvaluateCondition", val |-> r.val, err |-> r.err]
          /\ eval' = WithHeap(eval, r.heap)
    /\ UNCHANGED ps

\* ch.EvaluateCondition(condition)
ReadHandlerCondition ==
    /\ call = NoCall
    /\ \E condition \in BareConds \cup ContainsConds \cup LogicConds :
       \E r \in { ch_EvaluateCondition(eval, condition) } :
          /\ call' = [op |-> "ch.EvaluateCondition", input |-> condition, before |-> eval]
          /\ ret' = [op |-> "ch.EvaluateCondition", val |-> r.val, err |-> r.err]
          /\ eval' = WithHeap(eval, r.heap)
    /\ UNCHANGED ps

\* ch.ProcessConditionalChain(expression)
ReadChain ==
    /\ call = NoCall
    /\ \E n \in 0..MaxChain : \E expression \in Chains(n) :
       \E r \in { ProcessConditionalChain(eval, expression) } :
          /\ call' = [op |-> "ProcessConditionalChain", input |-> expression, before |-> eval]
          /\ ret' = [op |-> "ProcessConditionalChain", val |-> r.res, err |-> r.err]
          /\ eval' = WithHeap(eval, r.heap)
    /\ UNCHANGED ps

\* the caller drops the result: the maps the call allocated are reclaimed
ReturnRead ==
    /\ call # NoCall
    /\ eval' = WithHeap(eval, SubSeq(eval.heap, 1, Len(call.before.heap)))
    /\ call' = NoCall
    /\ ret' = NoRet
    /\ UNCHANGED ps

NextRead == ReadExpression \/ ReadCondition \/ ReadHandlerCondition \/ ReadChain \/ ReturnRead

SpecRead == InitRead /\ [][NextRead]_vars

ReadOpCall == call # NoCall

\* C29: EvaluateExpression, both EvaluateCondition and
\* ProcessConditionalChain leave the evaluator as it was, whether they return
\* an error or not: the same variables with the same values, every map that
\* existed with the same keys and values, the same visit counts, history and
\* current passage; a bare variable that the state does not hold evaluates to
\* the Number 0 without error and is still absent afterwards.
C29_ReadOnly ==
    ReadOpCall =>
        /\ eval.state = call.before.state
        /\ eval.visitedPassages = call.before.visitedPassages
        /\ eval.history = call.before.history
        /\ eval.currentPassage = call.before.currentPassage
        /\ Len(eval.heap) >= Len(call.before.heap)
        /\ \A ref \in 1..Len(call.before.heap) : eval.heap[ref] = call.before.heap[ref]
        /\ (/\ call.op = "EvaluateExpression"
            /\ call.input.t = "var"
            /\ call.input.name \notin DOMAIN call.before.state)
              => /\ ret.err = ""
                 /\ ret.val = Num(0)
                 /\ call.input.name \notin DOMAIN eval.state

\* a key that $a's map does not hold has been read, which is an error, by an
\* evaluator that holds a history
C29_Witness ==
    /\ ReadOpCall
    /\ call.op = "EvaluateExpression"
    /\ call.input.t = "prop"
    /\ call.input.name = "a"
    /\ call.before.state["a"].kind = "datamap"
    /\ call.input.segs[1] \notin DOMAIN call.before.heap[call.before.state["a"].ref]
    /\ ret.err # ""
    /\ eval.history = << "A" >>

(***************************************************************************)
(* Specification SpecSuggest: GetSuggestedPaths run one pass of its loop   *)
(* at a time, on a story drawn at Init, from any start title and with a    *)
(* maxDepth that may be zero or negative.  call holds the locals of the    *)
(* running call.  SpecSuggestFair adds that the running loop goes on: a    *)
(* pass that can be taken is taken, and the loop is left when its          *)
(* condition fails.                                                        *)
(***************************************************************************)
MinDepth == -1

InitSuggest ==
    /\ \E story \in Stories : ps = NewPathSimulator(story)
    /\ eval = NewHarloweEvaluator(EmptyMap, << >>)
    /\ call = NoCall
    /\ ret = NoRet

\* paths := [][]string{}; queue := [][]string{{startPassage}}
CallSuggest ==
    /\ call = NoCall
    /\ \E startPassage \in PathTitles : \E maxDepth \in MinDepth..MaxDepth :
          call' = [op |-> "GetSuggestedPaths", startPassage |-> startPassage,
                   maxDepth |-> maxDepth, queue |-> << << startPassage >> >>,
                   paths |-> << >>, pc |-> "loop"]
    /\ UNCHANGED << eval, ps, ret >>

\* for len(queue) > 0 && len(paths) < 10: one pass
SuggestStep ==
    /\ call # NoCall
    /\ call.pc = "loop"
    /\ Len(call.queue) > 0
    /\ Len(call.paths) < SuggestedCap
    /\ \E next \in { SuggestIteration(ps, call.queue, call.paths, call.maxDepth) } :
          call' = [call EXCEPT !.queue = next.queue, !.paths = next.paths]
    /\ UNCHANGED << eval, ps, ret >>

\* the loop condition fails: return paths
SuggestExit ==
    /\ call # NoCall
    /\ call.pc = "loop"
    /\ ~(Len(call.queue) > 0 /\ Len(call.paths) < SuggestedCap)
    /\ call' = [call EXCEPT !.pc = "done"]
    /\ ret' = [op |-> "GetSuggestedPaths", paths |-> call.paths]
    /\ UNCHANGED << eval, ps >>

\* the caller takes the result
ReturnSuggest ==
    /\ call # NoCall
    /\ call.pc = "done"
    /\ call' = NoCall
    /\ ret' = NoRet
    /\ UNCHANGED << eval, ps >>

NextSuggest == CallSuggest \/ SuggestStep \/ SuggestExit \/ ReturnSuggest

SpecSuggest == InitSuggest /\ [][NextSuggest]_vars

SpecSuggestFair == SpecSuggest /\ WF_vars(SuggestStep) /\ WF_vars(SuggestExit)

SuggestRunning == call # NoCall /\ call.pc = "loop"

SuggestReturned == call # NoCall /\ call.pc = "done"

\* no path of the queue has more than max(maxDepth, 1) passages
QueueBounded ==
    call # NoCall =>
        \A i \in 1..Len(call.queue) :
            Len(call.queue[i]) <= (IF call.maxDepth > 1 THEN call.maxDepth ELSE 1)

\* the loop was left because the queue is empty or the cap is reached, and
\* what is returned is what the loop computed as a whole
LeftWhenDone ==
    SuggestReturned =>
        /\ Len(call.queue) = 0 \/ Len(call.paths) >= SuggestedCap
        /\ ret.paths = GetSuggestedPaths(ps, call.startPassage, call.maxDepth)

\* C30: GetSuggestedPaths returns for every story graph, cycles and
\* self-links included, every start title, also one that is no passage, and
\* every maxDepth, also zero and negative: a running call always reaches its
\* return, with the queue empty or ten paths collected, and no path of the
\* queue ever has more than max(maxDepth, 1) passages.
C30_SuggestTerminates ==
    /\ [](QueueBounded /\ LeftWhenDone)
    /\ SuggestRunning ~> SuggestReturned

\* a call on a story with the cycle A -> B -> A has returned on reaching the
\* cap of ten paths while paths were still queued
C30_Witness ==
    /\ SuggestReturned
    /\ "B" \in Range(ParseLinks(ps.story["A"]))
    /\ "A" \in Range(ParseLinks(ps.story["B"]))
    /\ Len(call.paths) = SuggestedCap
    /\ Len(call.queue) > 0
====
